---------------------------- MODULE Spec2Model ----------------------------
(***************************************************************************)
(* Model of ce-sdm-backend: the summarization engine (core/summarizer.py,  *)
(* core/crm_context.py) and the review workflow on Summary rows            *)
(* (core/views.py, core/models.py, core/io_utils.py).                      *)
(*                                                                         *)
(* Representation.  A Python str is a Text: a sequence of chunks (TLA+     *)
(* strings) whose concatenation is the str; "" is <<>>.  Message bodies,   *)
(* keywords and credentials are chunked per character, so that substring   *)
(* search, lower() and strip() are computed as the code computes them.     *)
(* An Optional value is <<>> (None) or <<v>>.  A dict is a record; {} is   *)
(* the record with the empty domain.                                       *)
(***************************************************************************)
EXTENDS Integers, Sequences, FiniteSets, TLC

VARIABLES
    threads,        \* table core_thread: thread_id -> Thread row
    summaries,      \* table core_summary: set of Summary rows (pk, thread, ...)
    nextPk,         \* the AUTOINCREMENT sequence of core_summary
    approved_log,   \* output/approved_summaries.jsonl: sequence of records
    crm_log,        \* output/crm_notes.jsonl: sequence of records
    now,            \* timezone.now(), a logical clock
    last,           \* the last request served and its HTTP status
    approvals,      \* history: approve calls answered 200 since the last reset-all
    mode,           \* which part of the system is running
    procs,          \* the concurrent request handlers (position and locals)
    txn,            \* the open transaction of admin_reset, if any
    race,           \* history: the database when the concurrent requests began
    call,           \* summarize_thread: the arguments and the remote outcomes
    ret,            \* summarize_thread: the value returned, the requests sent
    cache,          \* crm_context: the module globals _orders and _customers
    loads           \* history: how often each data file was read

vars == <<threads, summaries, nextPk, approved_log, crm_log, now, last,
          approvals, mode, procs, txn, race, call, ret, cache, loads>>

-----------------------------------------------------------------------------
(* Text and Optional helpers *)

None == <<>>

Some(v) == <<v>>

EmptyDict == [k \in {} |-> k]

\* Python truthiness of a str, a list or an Optional[str]
Truthy(opt) == opt # <<>> /\ opt[1] # <<>>

T(s) == <<s>>

RECURSIVE Join(_, _)
\* sep.join(parts)
Join(parts, sep) ==
    IF parts = <<>> THEN <<>>
    ELSE IF Len(parts) = 1 THEN parts[1]
    ELSE parts[1] \o sep \o Join(Tail(parts), sep)

\* what str.lower() changes among the chunks the model lowercases
LowerTable ==
    [A |-> "a", B |-> "b", C |-> "c", D |-> "d", E |-> "e", F |-> "f",
     G |-> "g", H |-> "h", I |-> "i", J |-> "j", K |-> "k", L |-> "l",
     M |-> "m", N |-> "n", O |-> "o", P |-> "p", Q |-> "q", R |-> "r",
     S |-> "s", T |-> "t", U |-> "u", V |-> "v", W |-> "w", X |-> "x",
     Y |-> "y", Z |-> "z"] @@
    ("Damaged item on arrival" :> "damaged item on arrival") @@
    ("Late delivery" :> "late delivery") @@
    ("Wrong variant received" :> "wrong variant received") @@
    ("Return request" :> "return request") @@
    ("Refund request" :> "refund request") @@
    ("General inquiry" :> "general inquiry")

Lower(text) ==
    [i \in DOMAIN text |->
        IF text[i] \in DOMAIN LowerTable THEN LowerTable[text[i]] ELSE text[i]]

\* needle in haystack, both chunked per character
Contains(haystack, needle) ==
    \E i \in 1..(Len(haystack) - Len(needle) + 1) :
        SubSeq(haystack, i, i + Len(needle) - 1) = needle

IsIn(x, list) == \E i \in DOMAIN list : list[i] = x

-----------------------------------------------------------------------------
(* core/summarizer.py: configuration *)

INTENT_KEYWORDS == [
    refund |-> <<<<"r","e","f","u","n","d">>,
        <<"c","r","e","d","i","t">>,
        <<"m","o","n","e","y"," ","b","a","c","k">>>>,
    replacement |-> <<<<"r","e","p","l","a","c","e">>,
        <<"r","e","p","l","a","c","e","m","e","n","t">>,
        <<"s","e","n","d"," ","a","n","o","t","h","e","r">>>>,
    return |-> <<<<"r","e","t","u","r","n">>,
        <<"r","m","a">>,
        <<"s","e","n","d"," ","b","a","c","k">>>>,
    photos |-> <<<<"p","h","o","t","o">>,
        <<"p","h","o","t","o","s">>,
        <<"p","i","c","t","u","r","e">>,
        <<"p","i","c","t","u","r","e","s">>,
        <<"i","m","a","g","e">>>>,
    address |-> <<<<"a","d","d","r","e","s","s">>,
        <<"d","e","l","i","v","e","r","y"," ","a","d","d","r","e","s","s">>>>,
    tracking |-> <<<<"t","r","a","c","k","i","n","g">>,
        <<"c","a","r","r","i","e","r">>,
        <<"s","h","i","p","m","e","n","t"," ","s","t","a","t","u","s">>>>,
    damaged |-> <<<<"d","a","m","a","g","e">>,
        <<"d","a","m","a","g","e","d">>,
        <<"b","r","o","k","e","n">>,
        <<"d","e","f","e","c","t","i","v","e">>>>,
    delay |-> <<<<"l","a","t","e">>,
        <<"d","e","l","a","y","e","d">>,
        <<"d","e","l","a","y">>,
        <<"n","o","t"," ","a","r","r","i","v","e","d">>>>,
    wrong_variant |-> <<<<"w","r","o","n","g">>,
        <<"s","i","z","e">>,
        <<"c","o","l","o","r">>,
        <<"v","a","r","i","a","n","t">>>>]

ISSUE_TYPES == [
    damaged |-> T("Damaged item on arrival"),
    delay |-> T("Late delivery"),
    wrong_variant |-> T("Wrong variant received"),
    return |-> T("Return request"),
    refund |-> T("Refund request"),
    default |-> T("General inquiry")]

-----------------------------------------------------------------------------
(* core/crm_context.py: the reference data (data/orders.json,              *)
(* data/customers.json) and its two lookups                                *)

Orders ==
    (T("ORD-1") :> [policy |-> Some(T("30-day returns")),
                    stock_available |-> Some(TRUE),
                    status |-> Some(T("Delivered")),
                    customer_id |-> Some(T("C-1"))]) @@
    (T("ORD-2") :> [policy |-> None,
                    stock_available |-> Some(FALSE),
                    status |-> Some(T("Shipped")),
                    customer_id |-> Some(T("C-9"))]) @@
    (T("ORD-3") :> [policy |-> Some(T("Final sale")),
                    stock_available |-> None,
                    status |-> None,
                    customer_id |-> None])

Customers ==
    (T("C-1") :> [customer_id |-> Some(T("C-1")),
                  name |-> Some(T("Asha Rao")),
                  email |-> Some(T("asha@example.com"))])

get_order(order_id) ==
    IF order_id \in DOMAIN Orders THEN Some(Orders[order_id]) ELSE None

get_customer(customer_id) ==
    IF customer_id \in DOMAIN Customers THEN Some(Customers[customer_id]) ELSE None

-----------------------------------------------------------------------------
(* core/summarizer.py: TextProcessor and RuleBasedSummarizer *)

contains_any_keyword(text, keywords) ==
    LET text_lower == Lower(text)
    IN  \E i \in DOMAIN keywords : Contains(text_lower, keywords[i])

\* faulty variant: the delay group is tested before the damaged group
classify_issue_type_delay_first(text) ==
    IF contains_any_keyword(text, INTENT_KEYWORDS.delay)
        THEN T("Late delivery")
    ELSE IF contains_any_keyword(text, INTENT_KEYWORDS.damaged)
        THEN T("Damaged item on arrival")
    ELSE IF contains_any_keyword(text, INTENT_KEYWORDS.wrong_variant)
        THEN T("Wrong variant received")
    ELSE IF contains_any_keyword(text, INTENT_KEYWORDS.return)
        THEN T("Return request")
    ELSE IF contains_any_keyword(text, INTENT_KEYWORDS.refund)
        THEN T("Refund request")
    ELSE T("General inquiry")

classify_issue_type(text) ==
    IF contains_any_keyword(text, INTENT_KEYWORDS.damaged)
        THEN T("Damaged item on arrival")
    ELSE IF contains_any_keyword(text, INTENT_KEYWORDS.delay)
        THEN T("Late delivery")
    ELSE IF contains_any_keyword(text, INTENT_KEYWORDS.wrong_variant)
        THEN T("Wrong variant received")
    ELSE IF contains_any_keyword(text, INTENT_KEYWORDS.return)
        THEN T("Return request")
    ELSE IF contains_any_keyword(text, INTENT_KEYWORDS.refund)
        THEN T("Refund request")
    ELSE T("General inquiry")

REQUEST_TYPES == <<"refund", "replacement", "return", "photos", "address", "tracking">>

RECURSIVE detect_from(_, _)
detect_from(text, i) ==
    IF i > Len(REQUEST_TYPES) THEN <<>>
    ELSE (IF contains_any_keyword(text, INTENT_KEYWORDS[REQUEST_TYPES[i]])
            THEN <<T(REQUEST_TYPES[i])>> ELSE <<>>)
         \o detect_from(text, i + 1)

detect_customer_asks(text) == detect_from(text, 1)

ACTION_PHOTOS == T("Request photographic evidence of the issue from the customer")
ACTION_RMA == T("Generate Return Merchandise Authorization (RMA) and return shipping label")
ACTION_REFUND == T("Process refund upon receipt of returned item")
ACTION_REPLACE == T("Offer replacement if stock available")
ACTION_ADDRESS == T("Confirm delivery address with customer")
ACTION_TRACKING == T("Provide tracking information to customer")
ACTION_DEFAULT == T("Confirm details with customer and determine next steps")
ACTION_REPLACE_STOCK == T("Offer replacement (stock available)")
ACTION_REPLACE_BACKORDER == T("Offer replacement (backorder or out of stock)")

\* faulty variant: the default action closes every list
build_next_actions_with_default(issue_type, customer_asks) ==
    LET a1 == IF IsIn(T("photos"), customer_asks)
                 \/ issue_type = T("Damaged item on arrival")
              THEN <<ACTION_PHOTOS>> ELSE <<>>
        a2 == IF IsIn(T("return"), customer_asks)
                 \/ issue_type \in {T("Damaged item on arrival"), T("Wrong variant received")}
              THEN Append(a1, ACTION_RMA) ELSE a1
        a3 == IF IsIn(T("refund"), customer_asks)
                 \/ issue_type = T("Damaged item on arrival")
              THEN Append(a2, ACTION_REFUND) ELSE a2
    IN  Append(a3, ACTION_DEFAULT)

build_next_actions(issue_type, customer_asks) ==
    LET a1 == IF IsIn(T("photos"), customer_asks)
                 \/ issue_type = T("Damaged item on arrival")
              THEN <<ACTION_PHOTOS>> ELSE <<>>
        a2 == IF IsIn(T("return"), customer_asks)
                 \/ issue_type \in {T("Damaged item on arrival"), T("Wrong variant received")}
              THEN Append(a1, ACTION_RMA) ELSE a1
        a3 == IF IsIn(T("refund"), customer_asks)
                 \/ issue_type = T("Damaged item on arrival")
              THEN Append(a2, ACTION_REFUND) ELSE a2
        a4 == IF IsIn(T("replacement"), customer_asks)
              THEN Append(a3, ACTION_REPLACE) ELSE a3
        a5 == IF IsIn(T("address"), customer_asks)
              THEN Append(a4, ACTION_ADDRESS) ELSE a4
        a6 == IF IsIn(T("tracking"), customer_asks)
              THEN Append(a5, ACTION_TRACKING) ELSE a5
    IN  IF a6 = <<>> THEN <<ACTION_DEFAULT>> ELSE a6

\* faulty variant: a replacement ask is tested before a refund ask
determine_disposition_replacement_first(customer_asks) ==
    IF IsIn(T("replacement"), customer_asks) THEN T("Replacement")
    ELSE IF IsIn(T("refund"), customer_asks) THEN T("Refund")
    ELSE IF IsIn(T("return"), customer_asks) THEN T("RMA + Refund")
    ELSE T("Agent to confirm with customer")

determine_disposition(customer_asks) ==
    IF IsIn(T("refund"), customer_asks) THEN T("Refund")
    ELSE IF IsIn(T("replacement"), customer_asks) THEN T("Replacement")
    ELSE IF IsIn(T("return"), customer_asks) THEN T("RMA + Refund")
    ELSE T("Agent to confirm with customer")

NoCrmContext ==
    [policy |-> None, stock_available |-> None, order_status |-> None,
     customer |-> None]

\* faulty variant: an order whose customer is unknown yields nothing at all
fetch_crm_context_requiring_customer(order_id) ==
    IF order_id = <<>> THEN NoCrmContext
    ELSE LET order == get_order(order_id)
         IN  IF order = None THEN NoCrmContext
             ELSE LET o == order[1]
                      cust == IF Truthy(o.customer_id)
                              THEN get_customer(o.customer_id[1]) ELSE None
                  IN  IF cust = None THEN NoCrmContext
                      ELSE [policy |-> o.policy,
                            stock_available |-> o.stock_available,
                            order_status |-> o.status,
                            customer |->
                                Some([customer_id |-> cust[1].customer_id,
                                      name |-> cust[1].name,
                                      email |-> cust[1].email])]

fetch_crm_context(order_id) ==
    IF order_id = <<>> THEN NoCrmContext
    ELSE LET order == get_order(order_id)
         IN  IF order = None THEN NoCrmContext
             ELSE LET o == order[1]
                      cust == IF Truthy(o.customer_id)
                              THEN get_customer(o.customer_id[1]) ELSE None
                  IN  [policy |-> o.policy,
                       stock_available |-> o.stock_available,
                       order_status |-> o.status,
                       customer |->
                           IF cust # None
                           THEN Some([customer_id |-> cust[1].customer_id,
                                      name |-> cust[1].name,
                                      email |-> cust[1].email])
                           ELSE None]

RECURSIVE Bullets(_)
Bullets(actions) ==
    IF actions = <<>> THEN <<>>
    ELSE T("\n* ") \o actions[1] \o Bullets(Tail(actions))

build_summary_text(issue_type, order_id, product, initiated_by, disposition, customer_asks, next_actions, policy, order_status) ==
    LET asked == Join(customer_asks, T(", "))
        head ==
            T("**Case Summary: ") \o issue_type \o T(" (Order ") \o order_id
            \o T(")**\n\n")
            \o T("The customer has reported a ") \o Lower(issue_type)
            \o T(" for order ") \o order_id \o T(" (") \o product \o T("). ")
            \o T("Initiated by ") \o initiated_by
            \o T(". Customer is requesting: ")
            \o (IF asked # <<>> THEN asked ELSE T("assistance")) \o T(". ")
            \o T("Recommended disposition: ") \o disposition \o T(".\n\n")
            \o T("Next steps:\n")
        crm_bits ==
            (IF Truthy(order_status)
                THEN <<T("Order status: ") \o order_status[1] \o T(".")>> ELSE <<>>)
            \o (IF Truthy(policy)
                THEN <<T("Policy: ") \o policy[1] \o T(".")>> ELSE <<>>)
    IN  head \o Bullets(next_actions)
        \o (IF crm_bits # <<>> THEN T("\n\n") \o Join(crm_bits, T(" ")) ELSE <<>>)

\* faulty variant: only a true stock_available rewrites the action
refine_next_actions_in_stock_only(next_actions, stock_available) ==
    IF stock_available # None
    THEN [i \in DOMAIN next_actions |->
            IF next_actions[i] = ACTION_REPLACE /\ stock_available[1]
            THEN ACTION_REPLACE_STOCK
            ELSE next_actions[i]]
    ELSE next_actions

\* lines 489-500: the stock refinement of next_actions
refine_next_actions(next_actions, stock_available) ==
    IF stock_available # None
    THEN [i \in DOMAIN next_actions |->
            IF next_actions[i] = ACTION_REPLACE /\ stock_available[1]
            THEN ACTION_REPLACE_STOCK
            ELSE IF next_actions[i] = ACTION_REPLACE /\ ~stock_available[1]
            THEN ACTION_REPLACE_BACKORDER
            ELSE next_actions[i]]
    ELSE next_actions

Bodies(messages) == [i \in DOMAIN messages |-> messages[i].body]

RuleBasedSummarizer_summarize(thread) ==
    LET all_text == Join(Bodies(thread.messages), <<" ">>)
        product == thread.product
        order_id == thread.order_id
        initiated_by == thread.initiated_by
        issue_type == classify_issue_type(all_text)
        customer_asks == detect_customer_asks(all_text)
        disposition == determine_disposition(customer_asks)
        crm == fetch_crm_context(order_id)
        next_actions ==
            refine_next_actions(build_next_actions(issue_type, customer_asks),
                                crm.stock_available)
    IN  [draft_summary |->
            build_summary_text(issue_type, order_id, product, initiated_by,
                               disposition, customer_asks, next_actions,
                               crm.policy, crm.order_status),
         draft_fields |->
            [thread_id |-> thread.thread_id,
             order_id |-> order_id,
             product |-> product,
             initiated_by |-> initiated_by,
             issue_type |-> issue_type,
             customer_ask |-> customer_asks,
             attachments_needed |->
                IF IsIn(T("photos"), customer_asks) THEN <<T("Photos")>> ELSE <<>>,
             current_status |-> T("Unresolved"),
             recommended_disposition |-> disposition,
             next_actions |-> next_actions,
             sla_risk |-> FALSE,
             crm_snapshot |->
                [policy |-> crm.policy,
                 order_status |-> crm.order_status,
                 stock_available |-> crm.stock_available,
                 customer |-> crm.customer]]]

-----------------------------------------------------------------------------
(* core/summarizer.py: TextProcessor on the LLM's message content.  The    *)
(* content is chunked into the characters the code looks at (quote,        *)
(* backslash, newline, space, braces, brackets, colon, comma), the code    *)
(* fence of three backticks, the language tag "json", and words that hold  *)
(* none of them.                                                           *)

\* the chunk that stands for the fence (a TLA+ string holds no backtick)
FENCE == "<fence>"

WHITESPACE == {" ", "\n", "\t"}

RECURSIVE LStrip(_)
LStrip(text) ==
    IF text # <<>> /\ text[1] \in WHITESPACE THEN LStrip(Tail(text)) ELSE text

RECURSIVE RStrip(_)
RStrip(text) ==
    IF text # <<>> /\ text[Len(text)] \in WHITESPACE
    THEN RStrip(SubSeq(text, 1, Len(text) - 1)) ELSE text

Strip(text) == RStrip(LStrip(text))

RECURSIVE UpTo(_, _)
\* the text before the first occurrence of chunk c (all of it if none)
UpTo(text, c) ==
    IF text = <<>> \/ text[1] = c THEN <<>>
    ELSE <<text[1]>> \o UpTo(Tail(text), c)

\* content.split(fence)[1], for a content that starts with the fence
SplitSecond(content) == UpTo(Tail(content), FENCE)

clean_json_response(content) ==
    IF content # <<>> /\ content[1] = FENCE
    THEN LET inner == SplitSecond(content)
             untagged == IF inner # <<>> /\ inner[1] = "json"
                         THEN LStrip(Tail(inner)) ELSE inner
         IN  Strip(UpTo(untagged, FENCE))
    ELSE Strip(content)

RECURSIVE CountQuotes(_)
CountQuotes(text) ==
    IF text = <<>> THEN 0
    ELSE (IF text[1] = "\"" THEN 1 ELSE 0) + CountQuotes(Tail(text))

\* re.sub(r'(?<!\\)\n(?=(?:[^"]*"[^"]*")*[^"]*$)', '\\n', content): a newline
\* not preceded by a backslash and followed by an even number of quotes is
\* replaced by the template \n, which re.sub expands to a newline
repair_json_newlines(content) ==
    [i \in DOMAIN content |->
        IF /\ content[i] = "\n"
           /\ ~(i > 1 /\ content[i - 1] = "\\")
           /\ CountQuotes(SubSeq(content, i + 1, Len(content))) % 2 = 0
        THEN "\n"
        ELSE content[i]]

(* json.loads on the chunked content.  A value is a string, an array or    *)
(* an object; any other chunk where a value is expected is a syntax error  *)
(* (the contents drawn hold no numbers or literals).                       *)

JFail == [ok |-> FALSE, kind |-> "none", str |-> <<>>, items |-> <<>>,
          members |-> <<>>, next |-> 0]

JStr(text, next) == [ok |-> TRUE, kind |-> "str", str |-> text, items |-> <<>>,
                     members |-> <<>>, next |-> next]

JArr(items, next) == [ok |-> TRUE, kind |-> "arr", str |-> <<>>, items |-> items,
                      members |-> <<>>, next |-> next]

JObj(members, next) == [ok |-> TRUE, kind |-> "obj", str |-> <<>>, items |-> <<>>,
                        members |-> members, next |-> next]

RECURSIVE SkipWs(_, _)
SkipWs(s, i) ==
    IF i <= Len(s) /\ s[i] \in WHITESPACE THEN SkipWs(s, i + 1) ELSE i

Unescape(c) == IF c = "n" THEN "\n" ELSE IF c = "t" THEN "\t" ELSE c

RECURSIVE StrBody(_, _, _)
\* the string whose opening quote was before position i
StrBody(s, i, acc) ==
    IF i > Len(s) THEN JFail
    ELSE IF s[i] = "\"" THEN JStr(acc, i + 1)
    ELSE IF s[i] = "\\"
        THEN IF i + 1 <= Len(s) /\ s[i + 1] \in {"\"", "\\", "/", "n", "t"}
             THEN StrBody(s, i + 2, Append(acc, Unescape(s[i + 1])))
             ELSE JFail
    ELSE IF s[i] \in {"\n", "\t"} THEN JFail   \* strict: no control characters
    ELSE StrBody(s, i + 1, Append(acc, s[i]))

RECURSIVE ParseValue(_, _)
RECURSIVE ParseItems(_, _, _)
RECURSIVE ParseMembers(_, _, _)

ParseValue(s, i0) ==
    LET i == SkipWs(s, i0)
    IN  IF i > Len(s) THEN JFail
        ELSE IF s[i] = "\"" THEN StrBody(s, i + 1, <<>>)
        ELSE IF s[i] = "["
            THEN LET j == SkipWs(s, i + 1)
                 IN  IF j <= Len(s) /\ s[j] = "]" THEN JArr(<<>>, j + 1)
                     ELSE ParseItems(s, j, <<>>)
        ELSE IF s[i] = "{"
            THEN LET j == SkipWs(s, i + 1)
                 IN  IF j <= Len(s) /\ s[j] = "}" THEN JObj(<<>>, j + 1)
                     ELSE ParseMembers(s, j, <<>>)
        ELSE JFail

ParseItems(s, i, acc) ==
    LET v == ParseValue(s, i)
        j == SkipWs(s, v.next)
    IN  IF ~v.ok \/ j > Len(s) THEN JFail
        ELSE IF s[j] = "," THEN ParseItems(s, j + 1, Append(acc, v))
        ELSE IF s[j] = "]" THEN JArr(Append(acc, v), j + 1)
        ELSE JFail

ParseMembers(s, i0, acc) ==
    LET i == SkipWs(s, i0)
    IN  IF i > Len(s) \/ s[i] # "\"" THEN JFail
        ELSE LET k == StrBody(s, i + 1, <<>>)
                 c == SkipWs(s, k.next)
             IN  IF ~k.ok \/ c > Len(s) \/ s[c] # ":" THEN JFail
                 ELSE LET v == ParseValue(s, c + 1)
                          j == SkipWs(s, v.next)
                          m == Append(acc, [key |-> k.str, value |-> v])
                      IN  IF ~v.ok \/ j > Len(s) THEN JFail
                          ELSE IF s[j] = "," THEN ParseMembers(s, j + 1, m)
                          ELSE IF s[j] = "}" THEN JObj(m, j + 1)
                          ELSE JFail

\* a value followed by anything but whitespace is a syntax error
WholeValue(content, v) ==
    IF v.ok /\ SkipWs(content, v.next) > Len(content) THEN v ELSE JFail

json_loads(content) == WholeValue(content, ParseValue(content, 1))

HasKey(obj, key) == \E i \in DOMAIN obj.members : obj.members[i].key = key

\* dict.get(key): the last member with that key
GetKey(obj, key) ==
    LET i == CHOOSE i \in DOMAIN obj.members :
                /\ obj.members[i].key = key
                /\ \A j \in DOMAIN obj.members : obj.members[j].key = key => j <= i
    IN  obj.members[i].value

\* parsed.get(key, ""), for a member that is a string when present
GetText(obj, key) == IF HasKey(obj, key) THEN GetKey(obj, key).str ELSE <<>>

\* parsed.get(key, []), for a member that is an array of strings when present
GetList(obj, key) ==
    IF HasKey(obj, key)
    THEN LET items == GetKey(obj, key).items
         IN  [i \in DOMAIN items |-> items[i].str]
    ELSE <<>>

-----------------------------------------------------------------------------
(* core/summarizer.py: LLMSummarizer.  The remote endpoint's answer to a   *)
(* request is an input: [kind, status, content], where kind "exception"    *)
(* is a requests.exceptions.RequestException (timeout, connection error),  *)
(* and content is None when the body holds no choices[0].message.content   *)
(* to extract (response.json() or the indexing raises).                    *)

\* faulty variant: any status but 401 counts as valid
validate_api_key_not_401(api_key, response) ==
    IF api_key = <<>> \/ Strip(api_key) = <<>>
    THEN [valid |-> FALSE, sent |-> <<>>]
    ELSE [valid |-> response.kind # "exception" /\ response.status # 401,
          sent |-> <<"validate">>]

\* returns whether the key is valid, and the requests sent
validate_api_key(api_key, response) ==
    IF api_key = <<>> \/ Strip(api_key) = <<>>
    THEN [valid |-> FALSE, sent |-> <<>>]
    ELSE [valid |-> /\ response.kind # "exception"
                    /\ response.status # 401
                    /\ response.status = 200,
          sent |-> <<"validate">>]

\* lines 242-263: the analysis read from the parsed content, None when
\* json.loads or a parsed.get raised
analysis_of(parsed, steps) ==
    IF ~parsed.ok THEN [value |-> None, steps |-> steps, sent |-> <<"generate">>]
    ELSE IF parsed.kind # "obj"   \* parsed.get raises AttributeError
        THEN [value |-> None, steps |-> steps, sent |-> <<"generate">>]
    ELSE [value |-> Some(
            [draft_summary |-> GetText(parsed, T("draft_summary")),
             draft_fields |->
               [issue_type |-> GetText(parsed, T("issue_type")),
                customer_ask |-> GetList(parsed, T("customer_ask")),
                recommended_disposition |->
                   GetText(parsed, T("recommended_disposition")),
                next_actions |-> GetList(parsed, T("next_actions"))]]),
          steps |-> steps, sent |-> <<"generate">>]

\* variant: the content is parsed first and repaired only after that failed
generate_summary_parse_first(thread, api_key, response) ==
    IF response.kind = "exception" THEN [value |-> None, steps |-> <<>>, sent |-> <<"generate">>]
    ELSE IF response.status # 200 THEN [value |-> None, steps |-> <<>>, sent |-> <<"generate">>]
    ELSE IF response.content = None THEN [value |-> None, steps |-> <<>>, sent |-> <<"generate">>]
    ELSE IF response.content[1] = <<>> THEN [value |-> None, steps |-> <<>>, sent |-> <<"generate">>]
    ELSE IF json_loads(clean_json_response(response.content[1])).ok
        THEN analysis_of(json_loads(clean_json_response(response.content[1])),
                         <<"clean", "parse">>)
    ELSE analysis_of(json_loads(repair_json_newlines(
                        clean_json_response(response.content[1]))),
                     <<"clean", "parse", "repair", "parse">>)

\* returns the analysis (None on failure), the steps taken on the content
\* and the request sent (lines 226-232, before anything that can fail)
generate_summary(thread, api_key, response) ==
    IF response.kind = "exception" THEN [value |-> None, steps |-> <<>>, sent |-> <<"generate">>]
    ELSE IF response.status # 200 THEN [value |-> None, steps |-> <<>>, sent |-> <<"generate">>]
    ELSE IF response.content = None THEN [value |-> None, steps |-> <<>>, sent |-> <<"generate">>]
    ELSE IF response.content[1] = <<>> THEN [value |-> None, steps |-> <<>>, sent |-> <<"generate">>]
    ELSE analysis_of(json_loads(repair_json_newlines(
                        clean_json_response(response.content[1]))),
                     <<"clean", "repair", "parse">>)

-----------------------------------------------------------------------------
(* core/summarizer.py: ThreadSummarizer *)

RULE_FOOTER == T("\n\n---\n*This response was generated via built-in rule-based generation.*")

LLM_FOOTER == T("\n\n---\n*This response was generated via LLM.*")

RECURSIVE ReplaceEscapedNewlines(_)
\* draft_summary.replace("\\n", "\n")
ReplaceEscapedNewlines(text) ==
    IF text = <<>> THEN <<>>
    ELSE IF Len(text) >= 2 /\ text[1] = "\\" /\ text[2] = "n"
        THEN <<"\n">> \o ReplaceEscapedNewlines(SubSeq(text, 3, Len(text)))
    ELSE <<text[1]>> \o ReplaceEscapedNewlines(Tail(text))

\* lines 576-625: the result built from the LLM's analysis
llm_result(thread, llm_analysis) ==
    LET order_id == thread.order_id
        crm == fetch_crm_context(order_id)
        crm_bits ==
            (IF Truthy(crm.order_status)
                THEN <<T("Order status is currently listed as \"")
                       \o crm.order_status[1] \o T("\".")>>
                ELSE <<>>)
            \o (IF Truthy(crm.policy)
                THEN <<T("Policy: ") \o crm.policy[1]>> ELSE <<>>)
        fields == llm_analysis.draft_fields
    IN  [draft_summary |->
            ReplaceEscapedNewlines(llm_analysis.draft_summary)
            \o (IF crm_bits # <<>> THEN T("\n\n") \o Join(crm_bits, T(" ")) ELSE <<>>)
            \o LLM_FOOTER,
         draft_fields |->
            [thread_id |-> thread.thread_id,
             order_id |-> order_id,
             product |-> thread.product,
             initiated_by |-> thread.initiated_by,
             issue_type |-> fields.issue_type,
             customer_ask |-> fields.customer_ask,
             attachments_needed |->
                IF IsIn(T("photos"), fields.customer_ask)
                THEN <<T("Photos")>> ELSE <<>>,
             current_status |-> T("Unresolved"),
             recommended_disposition |-> fields.recommended_disposition,
             next_actions |-> fields.next_actions,
             sla_risk |-> FALSE,
             crm_snapshot |->
                [policy |-> crm.policy,
                 order_status |-> crm.order_status,
                 stock_available |-> crm.stock_available,
                 customer |-> crm.customer]]]

\* lines 570-574: the rule-based result with its footer
rule_result(result) ==
    [draft_summary |-> result.draft_summary \o RULE_FOOTER,
     draft_fields |-> result.draft_fields]

\* lines 567-625: the branch taken on what generate_summary returned
finish_summary(thread, checked, generated) ==
    [result |-> IF generated.value = None
                THEN rule_result(RuleBasedSummarizer_summarize(thread))
                ELSE llm_result(thread, generated.value[1]),
     branch |-> IF generated.value = None THEN "rules" ELSE "llm",
     sent |-> checked.sent \o generated.sent,
     steps |-> generated.steps]

\* faulty variant: generation is attempted whatever the validation returned
try_llm_unchecked(thread, llm_api_key, checked, generation) ==
    finish_summary(thread, checked,
                   generate_summary(thread, llm_api_key[1], generation))

\* lines 559-565: generate_summary is called only with a validated key
try_llm(thread, llm_api_key, checked, generation) ==
    finish_summary(thread, checked,
                   IF checked.valid
                   THEN generate_summary(thread, llm_api_key[1], generation)
                   ELSE [value |-> None, steps |-> <<>>, sent |-> <<>>])

\* returns the result, the branch that built it, the requests sent and the
\* steps taken on the LLM's content
ThreadSummarizer_summarize(thread, llm_api_key, validation, generation) ==
    try_llm(thread, llm_api_key,
            IF Truthy(llm_api_key)
            THEN validate_api_key(llm_api_key[1], validation)
            ELSE [valid |-> FALSE, sent |-> <<>>],
            generation)

-----------------------------------------------------------------------------
(* core/models.py: the two tables *)

\* a Thread row (the ingested conversation)
ThreadRow(thread_id, order_id, product, body) ==
    [thread_id |-> thread_id, subject |-> T("Help with my order"),
     topic |-> T("Orders"), initiated_by |-> T("customer"),
     order_id |-> order_id, product |-> product,
     messages |-> IF body = <<>> THEN <<>>
                  ELSE <<[id |-> T("m1"), sender |-> T("Customer"),
                          timestamp |-> T("2025-01-01T10:00:00Z"), body |-> body]>>]

\* a Summary row as models.py creates it: every field at its default
NewSummary(pk, thread_id) ==
    [pk |-> pk, thread |-> thread_id,
     draft_summary |-> <<>>, draft_fields |-> EmptyDict,
     edited_summary |-> <<>>, edited_fields |-> EmptyDict,
     approved_summary |-> <<>>, approved_fields |-> EmptyDict,
     state |-> "DRAFTED", approver |-> <<>>, approved_at |-> None]

STATE_CHOICES == {"DRAFTED", "EDITED", "APPROVED"}

\* thread = OneToOneField(Thread): the unique constraint an INSERT must meet
UniqueThread(rows, row) == \A r \in rows : r.thread # row.thread

ThreadExists(db, thread_id) == \E t \in db.threads : t.thread_id = thread_id

GetThread(db, thread_id) == CHOOSE t \in db.threads : t.thread_id = thread_id

HasSummary(db, thread_id) == \E r \in db.summaries : r.thread = thread_id

GetSummary(db, thread_id) == CHOOSE r \in db.summaries : r.thread = thread_id

\* faulty variant: the UPDATE leaves out the columns that are empty in the object
SaveRowNonEmpty(rows, row) ==
    IF \E r \in rows : r.pk = row.pk
    THEN LET old == CHOOSE r \in rows : r.pk = row.pk
         IN  {r \in rows : r.pk # row.pk}
             \cup {[row EXCEPT
                    !.draft_summary = IF @ = <<>> THEN old.draft_summary ELSE @,
                    !.edited_summary = IF @ = <<>> THEN old.edited_summary ELSE @,
                    !.approved_summary = IF @ = <<>> THEN old.approved_summary ELSE @,
                    !.approver = IF @ = <<>> THEN old.approver ELSE @]}
    ELSE IF UniqueThread(rows, row) THEN rows \cup {row} ELSE rows

\* Model.save() on a row that has a pk: UPDATE of every column WHERE pk,
\* and an INSERT if that updated nothing
SaveRow(rows, row) ==
    IF \E r \in rows : r.pk = row.pk
    THEN {r \in rows : r.pk # row.pk} \cup {row}
    ELSE IF UniqueThread(rows, row) THEN rows \cup {row} ELSE rows

-----------------------------------------------------------------------------
(* core/io_utils.py *)

append_jsonl(log, record) == Append(log, record)

\* faulty variant: only the first file is truncated
truncate_first_file(db) == [db EXCEPT !.approved_log = <<>>]

\* truncates both files
truncate_output_files(db) == [db EXCEPT !.approved_log = <<>>, !.crm_log = <<>>]

\* datetime.isoformat() of the logical clock's value
IsoFormat(time) == [iso |-> time]

-----------------------------------------------------------------------------
(* core/views.py: what each handler assigns to the Summary it loaded *)

\* faulty variant: the state is left as it was
SummarizeRowKeepState(row, result) ==
    [row EXCEPT !.draft_summary = result.draft_summary,
                !.draft_fields = result.draft_fields]

\* faulty variant: a new draft also clears what was edited and approved
SummarizeRowFresh(row, result) ==
    [row EXCEPT !.draft_summary = result.draft_summary,
                !.draft_fields = result.draft_fields,
                !.edited_summary = <<>>,
                !.edited_fields = EmptyDict,
                !.approved_summary = <<>>,
                !.approved_fields = EmptyDict,
                !.state = "DRAFTED"]

\* lines 90-92
SummarizeRow(row, result) ==
    [row EXCEPT !.draft_summary = result.draft_summary,
                !.draft_fields = result.draft_fields,
                !.state = "DRAFTED"]

\* faulty variant: the edit is stored and the state is left as it was
EditRowKeepState(row, body) ==
    [row EXCEPT !.edited_summary =
                    IF Truthy(body.edited_summary) THEN body.edited_summary[1]
                    ELSE <<>>,
                !.edited_fields =
                    IF body.edited_fields # None /\ DOMAIN body.edited_fields[1] # {}
                    THEN body.edited_fields[1] ELSE EmptyDict]

\* lines 109-111; a body member is None when missing
EditRow(row, body) ==
    [row EXCEPT !.edited_summary =
                    IF Truthy(body.edited_summary) THEN body.edited_summary[1]
                    ELSE <<>>,
                !.edited_fields =
                    IF body.edited_fields # None /\ DOMAIN body.edited_fields[1] # {}
                    THEN body.edited_fields[1] ELSE EmptyDict,
                !.state = "EDITED"]

\* variant: text and fields are both taken from the edit when the edited text
\* is non-empty, and both from the draft otherwise
ApproveRowOneVersion(row, body, time) ==
    [row EXCEPT !.approver = IF body.approver # None THEN body.approver[1] ELSE <<>>,
                !.approved_at = Some(time),
                !.approved_summary =
                    IF row.edited_summary # <<>> THEN row.edited_summary
                    ELSE row.draft_summary,
                !.approved_fields =
                    IF row.edited_summary # <<>> THEN row.edited_fields
                    ELSE row.draft_fields,
                !.state = "APPROVED"]

\* faulty variant: the approved text is always the edited text
ApproveRowFromEdited(row, body, time) ==
    [row EXCEPT !.approver = IF body.approver # None THEN body.approver[1] ELSE <<>>,
                !.approved_at = Some(time),
                !.approved_summary = row.edited_summary,
                !.approved_fields =
                    IF DOMAIN row.edited_fields # {} THEN row.edited_fields
                    ELSE row.draft_fields,
                !.state = "APPROVED"]

\* lines 125-133
ApproveRow(row, body, time) ==
    [row EXCEPT !.approver = IF body.approver # None THEN body.approver[1] ELSE <<>>,
                !.approved_at = Some(time),
                !.approved_summary =
                    IF row.edited_summary # <<>> THEN row.edited_summary
                    ELSE row.draft_summary,
                !.approved_fields =
                    IF DOMAIN row.edited_fields # {} THEN row.edited_fields
                    ELSE row.draft_fields,
                !.state = "APPROVED"]

\* faulty variant: the record carries the draft instead of the approved copy
ExportRecordOfDraft(thread, summary) ==
    [thread_id |-> thread.thread_id, subject |-> thread.subject,
     topic |-> thread.topic, order_id |-> thread.order_id,
     product |-> thread.product,
     approved_summary |-> summary.draft_summary,
     approved_fields |-> summary.draft_fields,
     approver |-> summary.approver,
     approved_at |-> IsoFormat(summary.approved_at[1])]

\* lines 137-147
ExportRecord(thread, summary) ==
    [thread_id |-> thread.thread_id, subject |-> thread.subject,
     topic |-> thread.topic, order_id |-> thread.order_id,
     product |-> thread.product,
     approved_summary |-> summary.approved_summary,
     approved_fields |-> summary.approved_fields,
     approver |-> summary.approver,
     approved_at |-> IsoFormat(summary.approved_at[1])]

\* lines 79-85
Payload(thread) ==
    [thread_id |-> thread.thread_id, order_id |-> thread.order_id,
     product |-> thread.product, initiated_by |-> thread.initiated_by,
     messages |-> thread.messages]

-----------------------------------------------------------------------------
(* Bounds and the inputs drawn *)

MaxClock == 4       \* requests served in one run of the workflow
MaxSetup == 3       \* requests served before two concurrent requests start
MaxCalls == 2       \* lookups of reference data made by one thread

CE1 == T("CE-1")
CE2 == T("CE-2")
CEX == T("CE-404")   \* no such thread

\* "Item arrived damaged, please send photos"
BodyDamaged == <<"I","t","e","m"," ","a","r","r","i","v","e","d"," ","d","a","m","a","g","e","d",","," ","p","l","e","a","s","e"," ","s","e","n","d"," ","p","h","o","t","o","s">>

\* "I want a replacement"
BodyReplacement == <<"I"," ","w","a","n","t"," ","a"," ","r","e","p","l","a","c","e","m","e","n","t">>

\* "Refund Please, it is LATE"
BodyRefundLate == <<"R","e","f","u","n","d"," ","P","l","e","a","s","e",","," ","i","t"," ","i","s"," ","L","A","T","E">>

\* "wrong size, I will send back"
BodyWrongSize == <<"w","r","o","n","g"," ","s","i","z","e",","," ","I"," ","w","i","l","l"," ","s","e","n","d"," ","b","a","c","k">>

IngestedThreads ==
    {ThreadRow(CE1, T("ORD-1"), T("Desk lamp"), BodyDamaged),
     ThreadRow(CE2, T("ORD-2"), T("Kettle"), BodyReplacement)}

SampleThreads ==
    IngestedThreads \cup
    {ThreadRow(T("CE-3"), <<>>, <<>>, <<>>),
     ThreadRow(T("CE-4"), T("ORD-404"), T("Mug"), BodyRefundLate),
     ThreadRow(T("CE-5"), T("ORD-3"), T("Shirt"), BodyWrongSize)}

GoodKey == <<"g","s","k","_","1">>

Keys == {None, Some(<<>>), Some(<<" ">>), Some(GoodKey)}

Status(code) == [kind |-> "status", status |-> code, content |-> None]

Exception == [kind |-> "exception", status |-> 0, content |-> None]

Content(text) == [kind |-> "status", status |-> 200, content |-> Some(text)]

Validations == {Exception, Status(200), Status(401), Status(500)}

\* {"draft_summary":"Customer asks for a refund.\nPhotos are attached.",
\*  "issue_type":"Refund request","customer_ask":["refund","photos"],
\*  "recommended_disposition":"Refund","next_actions":["Issue the refund"]}
GoodJson ==
    <<"{", "\"", "draft_summary", "\"", ":", "\"", "Customer asks for a refund.",
      "\\", "n", "Photos are attached.", "\"", ",",
      "\"", "issue_type", "\"", ":", "\"", "Refund request", "\"", ",",
      "\"", "customer_ask", "\"", ":", "[", "\"", "refund", "\"", ",",
      "\"", "photos", "\"", "]", ",",
      "\"", "recommended_disposition", "\"", ":", " ", "\"", "Refund", "\"", ",",
      "\n", "\"", "next_actions", "\"", ":", "[", "\"", "Issue the refund", "\"",
      "]", "}">>

\* the same object in a fenced block with a language tag
FencedJson == <<FENCE, "json", "\n">> \o GoodJson \o <<"\n", FENCE>>

\* an object that lacks next_actions and names an issue type of its own
SparseJson ==
    <<"{", "\"", "draft_summary", "\"", ":", "\"", "Billing question.", "\"", ",",
      "\"", "issue_type", "\"", ":", "\"", "Billing", "\"", "}">>

\* a string value broken by a literal newline
BrokenJson ==
    <<"{", "\"", "draft_summary", "\"", ":", "\"", "Line one", "\n", "Line two",
      "\"", "}">>

Prose == <<"Sorry, I cannot help with that.">>

JsonArray == <<"[", "\"", "refund", "\"", "]">>

Generations ==
    {Exception, Status(500), Status(200), Content(<<>>), Content(Prose),
     Content(BrokenJson), Content(JsonArray), Content(GoodJson),
     Content(FencedJson), Content(SparseJson)}

\* the remote endpoint's answers to one summarize request
LlmScenarios ==
    {[llm_token |-> None, validation |-> Exception, generation |-> Exception],
     [llm_token |-> Some(GoodKey), validation |-> Status(200),
      generation |-> Content(GoodJson)]}

\* the calls of summarize_thread the model draws, each evaluated once
SummarizeArgs ==
    {Payload(t) : t \in SampleThreads} \X Keys \X Validations \X Generations

SummarizeTable ==
    [x \in SummarizeArgs |-> ThreadSummarizer_summarize(x[1], x[2], x[3], x[4])]

\* lines 629-657
summarize_thread(thread, llm_api_key, validation, generation) ==
    SummarizeTable[<<thread, llm_api_key, validation, generation>>]

-----------------------------------------------------------------------------
(* core/views.py: the handlers, each from a database and a request to the  *)
(* database it leaves and the HTTP status it answers.  A database is       *)
(* [threads, summaries, nextPk, approved_log, crm_log].                    *)

Answer(db, status) == [db |-> db, status |-> status]

\* body: [thread_id, llm_token], each None when missing
views_summarize(db, body, validation, generation) ==
    IF ~Truthy(body.thread_id) THEN Answer(db, 400)
    ELSE IF ~ThreadExists(db, body.thread_id[1]) THEN Answer(db, 404)
    ELSE LET thread == GetThread(db, body.thread_id[1])
             result == summarize_thread(Payload(thread), body.llm_token,
                                        validation, generation).result
             created == ~HasSummary(db, thread.thread_id)
             summary == IF created THEN NewSummary(db.nextPk, thread.thread_id)
                        ELSE GetSummary(db, thread.thread_id)
             loaded == IF created THEN db.summaries \cup {summary} ELSE db.summaries
         IN  Answer([db EXCEPT !.summaries = SaveRow(loaded, SummarizeRow(summary, result)),
                               !.nextPk = IF created THEN @ + 1 ELSE @],
                    200)

\* faulty variant: saving an edit also emits an export record
views_save_edit_exporting(db, thread_id, body) ==
    IF ~ThreadExists(db, thread_id) THEN Answer(db, 404)
    ELSE IF ~HasSummary(db, thread_id) THEN Answer(db, 404)
    ELSE LET summary == EditRow(GetSummary(db, thread_id), body)
         IN  Answer([db EXCEPT !.summaries = SaveRow(@, summary),
                               !.approved_log =
                                    append_jsonl(@, [thread_id |-> thread_id,
                                                     edited_summary |-> summary.edited_summary])],
                    200)

\* body: [edited_summary, edited_fields]
views_save_edit(db, thread_id, body) ==
    IF ~ThreadExists(db, thread_id) THEN Answer(db, 404)
    ELSE IF ~HasSummary(db, thread_id) THEN Answer(db, 404)
    ELSE LET summary == GetSummary(db, thread_id)
         IN  Answer([db EXCEPT !.summaries = SaveRow(@, EditRow(summary, body))], 200)

\* faulty variant: approve creates the Summary it does not find
views_approve_upsert(db, thread_id, body, time) ==
    IF ~ThreadExists(db, thread_id) THEN Answer(db, 404)
    ELSE LET thread == GetThread(db, thread_id)
             created == ~HasSummary(db, thread_id)
             loaded == IF created THEN NewSummary(db.nextPk, thread_id)
                       ELSE GetSummary(db, thread_id)
             summary == ApproveRow(loaded, body, time)
         IN  Answer([db EXCEPT !.summaries = SaveRow(@ \cup {loaded}, summary),
                               !.nextPk = IF created THEN @ + 1 ELSE @,
                               !.approved_log =
                                    append_jsonl(@, ExportRecord(thread, summary))],
                    200)

\* body: [approver]
views_approve(db, thread_id, body, time) ==
    IF ~ThreadExists(db, thread_id) THEN Answer(db, 404)
    ELSE IF ~HasSummary(db, thread_id) THEN Answer(db, 404)
    ELSE LET thread == GetThread(db, thread_id)
             summary == ApproveRow(GetSummary(db, thread_id), body, time)
         IN  Answer([db EXCEPT !.summaries = SaveRow(@, summary),
                               !.approved_log =
                                    append_jsonl(@, ExportRecord(thread, summary))],
                    200)

\* body: [thread_id, note, metadata]
views_post_crm_note(db, body) ==
    IF ~Truthy(body.thread_id) \/ ~Truthy(body.note) THEN Answer(db, 400)
    ELSE Answer([db EXCEPT !.crm_log =
                    append_jsonl(@, [thread_id |-> body.thread_id[1],
                                     note |-> body.note[1],
                                     metadata |->
                                        IF body.metadata # None
                                           /\ DOMAIN body.metadata[1] # {}
                                        THEN body.metadata[1] ELSE EmptyDict])],
                200)

views_get_summary(db, thread_id) ==
    IF ~ThreadExists(db, thread_id) THEN Answer(db, 404)
    ELSE IF ~HasSummary(db, thread_id) THEN Answer(db, 404)
    ELSE Answer(db, 200)

\* faulty variant: the single-thread reset truncates the output files too
views_admin_reset_truncating(db, body) ==
    IF Truthy(body.thread_id)
    THEN IF ~ThreadExists(db, body.thread_id[1]) THEN Answer(db, 404)
         ELSE Answer(truncate_output_files(
                        [db EXCEPT !.summaries =
                            {r \in @ : r.thread # body.thread_id[1]}]), 200)
    ELSE Answer(truncate_output_files([db EXCEPT !.summaries = {}]), 200)

\* body: [thread_id]
views_admin_reset(db, body) ==
    IF Truthy(body.thread_id)
    THEN IF ~ThreadExists(db, body.thread_id[1]) THEN Answer(db, 404)
         ELSE Answer([db EXCEPT !.summaries =
                        {r \in @ : r.thread # body.thread_id[1]}], 200)
    ELSE Answer(truncate_output_files([db EXCEPT !.summaries = {}]), 200)

-----------------------------------------------------------------------------
(* The summarizer alone: one call of summarize_thread on drawn arguments   *)
(* and drawn answers of the remote endpoint.                               *)

NoRequest == [op |-> "none", status |-> 0]

NoTxn == [open |-> FALSE, deleted |-> {}]

\* crm_context.py 6-7: both globals start as None
NotLoaded == [orders |-> None, customers |-> None]

NoLoads == [orders |-> 0, customers |-> 0]

DbIdle ==
    /\ threads = {}
    /\ summaries = {}
    /\ nextPk = 1
    /\ approved_log = <<>>
    /\ crm_log = <<>>
    /\ now = 0
    /\ last = NoRequest
    /\ approvals = 0
    /\ procs = <<>>
    /\ txn = NoTxn
    /\ race = None
    /\ cache = NotLoaded
    /\ loads = NoLoads

dbVars == <<threads, summaries, nextPk, approved_log, crm_log, now, last,
            approvals, procs, txn, race, cache, loads>>

InitSummarizer ==
    /\ mode = "summarizer"
    /\ DbIdle
    /\ call \in [thread : {Payload(t) : t \in SampleThreads},
                 llm_api_key : Keys,
                 validation : Validations,
                 generation : Generations]
    /\ ret = None

Invoke ==
    /\ mode = "summarizer"
    /\ ret = None
    /\ ret' = Some(summarize_thread(call.thread, call.llm_api_key,
                                    call.validation, call.generation))
    /\ UNCHANGED <<mode, call, dbVars>>

NextSummarizer == Invoke

SummarizerSpec == InitSummarizer /\ [][NextSummarizer]_vars

UnparsableContents == {Prose, BrokenJson}

\* the calls C4 is about: no credential, a credential that fails validation,
\* or a generation that yields nothing
FallbackCase(c) ==
    \/ c.llm_api_key = None
    \/ c.llm_api_key = Some(<<>>)
    \/ c.validation.kind = "exception"
    \/ c.validation.status # 200
    \/ c.generation.kind = "exception"
    \/ c.generation.status # 200
    \/ c.generation.content = Some(<<>>)
    \/ c.generation.content \in {Some(x) : x \in UnparsableContents}

\* C4: when the credential is empty or fails validation, or generation
\* yields no result, summarize returns the rule-based draft_fields of the
\* thread and the rule-based text followed by the rule-based footer.
C4_Fallback ==
    (ret # None /\ FallbackCase(call)) =>
        LET rules == RuleBasedSummarizer_summarize(call.thread)
        IN  /\ ret[1].result.draft_fields = rules.draft_fields
            /\ ret[1].result.draft_summary = rules.draft_summary \o RULE_FOOTER

\* scenario D: a valid credential, and the generation request answered 500
C4_Witness ==
    /\ ret # None
    /\ call.llm_api_key = Some(GoodKey)
    /\ call.validation = Status(200)
    /\ call.generation = Status(500)
    /\ ret[1].sent = <<"validate", "generate">>
    /\ ret[1].branch = "rules"

RECURSIVE Count(_, _)
Count(seq, x) ==
    IF seq = <<>> THEN 0
    ELSE (IF seq[1] = x THEN 1 ELSE 0) + Count(Tail(seq), x)

\* the remote endpoint accepted the request: no transport error, status 200
Accepted(answer) == answer.kind # "exception" /\ answer.status = 200

\* C12: one summarize call sends at most one validation request and at most
\* one generation request, the generation request only after a validation
\* that returned valid; without a credential it sends nothing; and after a
\* failed validation or generation it takes the rule-based path with no
\* further request.
C12_SingleAttempt ==
    ret # None =>
        LET sent == ret[1].sent
        IN  /\ Count(sent, "validate") <= 1
            /\ Count(sent, "generate") <= 1
            /\ Count(sent, "generate") = 1 =>
                    sent = <<"validate", "generate">> /\ Accepted(call.validation)
            /\ ~Truthy(call.llm_api_key) => sent = <<>>
            /\ (Count(sent, "validate") = 1 /\ ~Accepted(call.validation)) =>
                    sent = <<"validate">> /\ ret[1].branch = "rules"
            /\ (Count(sent, "generate") = 1 /\ ret[1].branch = "rules") =>
                    sent = <<"validate", "generate">>
            /\ ret[1].branch = "llm" => sent = <<"validate", "generate">>

\* a credential the endpoint rejects with 401: one request, then the rules
C12_Witness ==
    /\ ret # None
    /\ call.llm_api_key = Some(GoodKey)
    /\ call.validation = Status(401)
    /\ ret[1].sent = <<"validate">>
    /\ ret[1].branch = "rules"

DISPOSITIONS ==
    {T("Refund"), T("Replacement"), T("RMA + Refund"),
     T("Agent to confirm with customer")}

FIELD_KEYS ==
    {"thread_id", "order_id", "product", "initiated_by", "issue_type",
     "customer_ask", "attachments_needed", "current_status",
     "recommended_disposition", "next_actions", "sla_risk", "crm_snapshot"}

SatisfiesSchema(fields) ==
    /\ DOMAIN fields = FIELD_KEYS
    /\ fields.issue_type \in {ISSUE_TYPES[k] : k \in DOMAIN ISSUE_TYPES}
    /\ fields.recommended_disposition \in DISPOSITIONS
    /\ fields.next_actions # <<>>
    /\ fields.current_status = T("Unresolved")
    /\ fields.sla_risk = FALSE
    /\ DOMAIN fields.crm_snapshot =
            {"policy", "order_status", "stock_available", "customer"}

\* C13 as stated: every result of summarize, from the LLM branch or from the
\* rule-based branch, has the same draft_fields keys and satisfies the
\* schema: issue_type among the six issue types, recommended_disposition
\* among the four dispositions, next_actions non-empty, current_status
\* "Unresolved", sla_risk false, crm_snapshot with its four keys.
C13_Schema == ret # None => SatisfiesSchema(ret[1].result.draft_fields)

-----------------------------------------------------------------------------
(* The review workflow: requests served one at a time, each handler whole. *)

Db == [threads |-> threads, summaries |-> summaries, nextPk |-> nextPk,
       approved_log |-> approved_log, crm_log |-> crm_log]

SetDb(db) ==
    /\ threads' = db.threads
    /\ summaries' = db.summaries
    /\ nextPk' = db.nextPk
    /\ approved_log' = db.approved_log
    /\ crm_log' = db.crm_log

ThreadIds == {CE1, CE2, CEX}

EditedText == T("Edited by the agent.")

EditedFields == [issue_type |-> T("Refund request")]

EditBodies ==
    [edited_summary : {None, Some(EditedText)},
     edited_fields : {None, Some(EditedFields)}]

Approver == T("santosh.b")

ApproveBodies == [approver : {None, Some(Approver)}]

ResetBodies == [thread_id : {None, Some(<<>>)} \cup {Some(t) : t \in ThreadIds}]

NoteBodies ==
    {[thread_id |-> Some(CE1), note |-> Some(T("Called the customer.")),
      metadata |-> None],
     [thread_id |-> Some(CE1), note |-> None, metadata |-> None]}

Init ==
    /\ mode = "workflow"
    /\ threads = IngestedThreads
    /\ summaries = {}
    /\ nextPk = 1
    /\ approved_log = <<>>
    /\ crm_log = <<>>
    /\ now = 0
    /\ last = NoRequest
    /\ approvals = 0
    /\ procs = <<>>
    /\ txn = NoTxn
    /\ race = None
    /\ cache = NotLoaded
    /\ loads = NoLoads
    /\ call = None
    /\ ret = None

idleVars == <<mode, procs, txn, race, call, ret, cache, loads>>

\* every request is served at the next tick of the clock
Serve(op, a) ==
    /\ mode \in {"workflow", "setup"}
    /\ now < (IF mode = "workflow" THEN MaxClock ELSE MaxSetup)
    /\ now' = now + 1
    /\ SetDb(a.db)
    /\ last' = [op |-> op, status |-> a.status]
    /\ UNCHANGED idleVars

Summarize(thread_id, scenario) ==
    LET body == [thread_id |-> thread_id, llm_token |-> scenario.llm_token]
    IN  /\ Serve("summarize",
                 views_summarize(Db, body, scenario.validation, scenario.generation))
        /\ UNCHANGED approvals

SaveEdit(thread_id, body) ==
    /\ Serve("save_edit", views_save_edit(Db, thread_id, body))
    /\ UNCHANGED approvals

Approve(thread_id, body) ==
    LET a == views_approve(Db, thread_id, body, now + 1)
    IN  /\ Serve("approve", a)
        /\ approvals' = IF a.status = 200 THEN approvals + 1 ELSE approvals

GetSummaryRequest(thread_id) ==
    /\ Serve("get_summary", views_get_summary(Db, thread_id))
    /\ UNCHANGED approvals

PostCrmNote(body) ==
    /\ Serve("post_crm_note", views_post_crm_note(Db, body))
    /\ UNCHANGED approvals

AdminReset(body) ==
    /\ Serve("admin_reset", views_admin_reset(Db, body))
    /\ approvals' = IF ~Truthy(body.thread_id) THEN 0 ELSE approvals

SummarizeRequests ==
    ({Some(CE1), Some(CE2)} \X LlmScenarios)
    \cup ({None, Some(<<>>), Some(CEX)} \X {CHOOSE sc \in LlmScenarios : sc.llm_token = None})

EditRequests ==
    ({CE1, CE2} \X EditBodies)
    \cup {<<CEX, [edited_summary |-> Some(EditedText), edited_fields |-> None]>>}

ApproveRequests ==
    ({CE1} \X ApproveBodies) \cup ({CE2, CEX} \X {[approver |-> Some(Approver)]})

Next ==
    \/ \E r \in SummarizeRequests : Summarize(r[1], r[2])
    \/ \E r \in EditRequests : SaveEdit(r[1], r[2])
    \/ \E r \in ApproveRequests : Approve(r[1], r[2])
    \/ \E t \in ThreadIds : GetSummaryRequest(t)
    \/ \E body \in NoteBodies : PostCrmNote(body)
    \/ \E body \in ResetBodies : AdminReset(body)

Spec == Init /\ [][Next]_vars

-----------------------------------------------------------------------------
(* Properties of the review workflow *)

RowOf(rows, thread_id) == CHOOSE r \in rows : r.thread = thread_id

StateOf(rows, thread_id) ==
    IF \E r \in rows : r.thread = thread_id
    THEN RowOf(rows, thread_id).state ELSE "ABSENT"

Rank(state) == CASE state = "DRAFTED" -> 1 [] state = "EDITED" -> 2
                 [] state = "APPROVED" -> 3 [] OTHER -> 0

Served(op, status) == last'.op = op /\ last'.status = status

\* C1 as stated: the state of a Summary only advances along DRAFTED, EDITED,
\* APPROVED (or becomes absent); no request moves it back.
C1_Monotonic ==
    [][\A t \in ThreadIds :
        (StateOf(summaries, t) # "ABSENT" /\ StateOf(summaries', t) # "ABSENT")
        => Rank(StateOf(summaries', t)) >= Rank(StateOf(summaries, t))]_vars

\* C1 amended: the state changes only by the request that names its target:
\* summarize sets DRAFTED from any state (absent, DRAFTED, EDITED, APPROVED),
\* save_edit sets EDITED and approve sets APPROVED from any existing state,
\* and only a reset makes it absent.
C1_Transitions ==
    [][/\ \A t \in ThreadIds :
            LET old == StateOf(summaries, t)
                new == StateOf(summaries', t)
            IN  old # new =>
                    \/ new = "DRAFTED" /\ Served("summarize", 200)
                    \/ new = "EDITED" /\ old # "ABSENT" /\ Served("save_edit", 200)
                    \/ new = "APPROVED" /\ old # "ABSENT" /\ Served("approve", 200)
                    \/ new = "ABSENT" /\ Served("admin_reset", 200)
       /\ \A r \in SummarizeRequests :
            (Served("summarize", 200) /\ Summarize(r[1], r[2]))
            => StateOf(summaries', r[1][1]) = "DRAFTED"
       /\ \A r \in EditRequests :
            (Served("save_edit", 200) /\ SaveEdit(r[1], r[2]))
            => StateOf(summaries', r[1]) = "EDITED"
       /\ \A r \in ApproveRequests :
            (Served("approve", 200) /\ Approve(r[1], r[2]))
            => StateOf(summaries', r[1]) = "APPROVED"]_vars

\* a Summary that was approved and is DRAFTED again, and one EDITED again
C1_Witness ==
    \E r \in summaries : r.state = "DRAFTED" /\ r.approved_at # None

\* C2: a successful approve appends exactly one record to the
\* approved-summaries log, nothing else appends to it, and the log holds as
\* many records as approve calls succeeded since the last reset-all.
C2_ExactlyOnce ==
    /\ [](Len(approved_log) = approvals)
    /\ [][/\ Served("approve", 200) =>
                /\ Len(approved_log') = Len(approved_log) + 1
                /\ SubSeq(approved_log', 1, Len(approved_log)) = approved_log
          /\ (~Served("approve", 200) /\ last'.op # "admin_reset") =>
                approved_log' = approved_log
          /\ \A body \in ResetBodies :
                (last'.op = "admin_reset" /\ Truthy(body.thread_id)
                 /\ AdminReset(body)) => approved_log' = approved_log]_vars

C2_Witness ==
    /\ Len(approved_log) = 2
    /\ approvals = 2
    /\ last.op \in {"save_edit", "summarize", "get_summary"}

\* C3: right after approve on an existing Summary, approved_summary is the
\* draft_summary if edited_summary was empty when approve was called, and the
\* edited_summary otherwise.
C3_ApprovalCopy ==
    [][\A r \in ApproveRequests :
        (Served("approve", 200) /\ Approve(r[1], r[2])) =>
            LET old == RowOf(summaries, r[1])
                new == RowOf(summaries', r[1])
            IN  new.approved_summary =
                    IF old.edited_summary = <<>> THEN old.draft_summary
                    ELSE old.edited_summary]_vars

C3_Witness ==
    /\ last = [op |-> "approve", status |-> 200]
    /\ \E r \in summaries :
        /\ r.state = "APPROVED"
        /\ r.edited_summary = <<>>
        /\ r.edited_fields # EmptyDict
        /\ r.approved_summary = r.draft_summary
        /\ r.draft_summary # <<>>

\* C5: save_edit, approve and get_summary on a thread that does not exist or
\* has no Summary answer not-found and change no Summary and no export log.
C5_NotFound ==
    [][\A t \in ThreadIds :
        (~ThreadExists(Db, t) \/ ~HasSummary(Db, t)) =>
            (( \/ /\ last'.op = "save_edit"
                  /\ \E r \in EditRequests : r[1] = t /\ SaveEdit(t, r[2])
               \/ /\ last'.op = "approve"
                  /\ \E r \in ApproveRequests : r[1] = t /\ Approve(t, r[2])
               \/ /\ last'.op = "get_summary"
                  /\ GetSummaryRequest(t))
             => /\ last'.status = 404
                /\ summaries' = summaries
                /\ approved_log' = approved_log
                /\ crm_log' = crm_log)]_vars

\* approve answered not-found on an ingested thread before any summarize
C5_Witness ==
    /\ last = [op |-> "approve", status |-> 404]
    /\ summaries = {}
    /\ nextPk = 1
    /\ approved_log = <<>>
    /\ now = 1

\* C6: summarize on a thread that has a Summary, in any state, sets the state
\* to DRAFTED and overwrites draft_summary and draft_fields only; the edited
\* and approved values, approver, approved_at and the logs stay as they were.
C6_SummarizeFrame ==
    [][\A r \in SummarizeRequests :
        (/\ last'.op = "summarize"
         /\ Truthy(r[1])
         /\ HasSummary(Db, r[1][1])
         /\ Summarize(r[1], r[2])) =>
            LET old == RowOf(summaries, r[1][1])
                new == RowOf(summaries', r[1][1])
                result == summarize_thread(Payload(GetThread(Db, r[1][1])),
                                           r[2].llm_token, r[2].validation,
                                           r[2].generation).result
            IN  /\ new = [old EXCEPT !.state = "DRAFTED",
                                     !.draft_summary = result.draft_summary,
                                     !.draft_fields = result.draft_fields]
                /\ summaries' \ {new} = summaries \ {old}
                /\ approved_log' = approved_log
                /\ crm_log' = crm_log]_vars

\* a summarize that re-opened an edited and approved Summary
C6_Witness ==
    /\ last = [op |-> "summarize", status |-> 200]
    /\ \E r \in summaries :
        /\ r.state = "DRAFTED"
        /\ r.edited_summary = EditedText
        /\ r.approved_summary = EditedText
        /\ r.approved_at # None

\* C7: admin_reset without a thread_id leaves no Summary and both logs empty
\* and the Threads as they were; from then on get_summary answers not-found
\* for a thread until a summarize creates its Summary again.
C7_ResetAll ==
    [][/\ \A body \in ResetBodies :
            (last'.op = "admin_reset" /\ ~Truthy(body.thread_id)
             /\ AdminReset(body)) =>
                /\ summaries' = {}
                /\ approved_log' = <<>>
                /\ crm_log' = <<>>
                /\ threads' = threads
                /\ last'.status = 200
       /\ \A t \in ThreadIds :
            /\ (last'.op = "get_summary" /\ ~HasSummary(Db, t)
                /\ GetSummaryRequest(t)) => last'.status = 404
            /\ (~HasSummary(Db, t) /\ StateOf(summaries', t) # "ABSENT")
                    => Served("summarize", 200)]_vars

\* a reset-all that deleted a Summary, right after it
C7_Witness ==
    /\ last = [op |-> "admin_reset", status |-> 200]
    /\ summaries = {}
    /\ nextPk > 1
    /\ approved_log = <<>>
    /\ crm_log = <<>>
    /\ approvals = 0
    /\ now = MaxClock

\* C8: admin_reset with a thread_id deletes the Summary of that thread only;
\* the other Summaries, the Threads and both logs stay as they were; for an
\* unknown thread_id it answers not-found and changes nothing.
C8_ResetOne ==
    [][\A body \in ResetBodies :
        (last'.op = "admin_reset" /\ Truthy(body.thread_id) /\ AdminReset(body)) =>
            /\ threads' = threads
            /\ approved_log' = approved_log
            /\ crm_log' = crm_log
            /\ IF ThreadExists(Db, body.thread_id[1])
               THEN /\ last'.status = 200
                    /\ summaries' = {r \in summaries : r.thread # body.thread_id[1]}
               ELSE /\ last'.status = 404
                    /\ summaries' = summaries]_vars

\* CE-1 reset after its approval: its record and the other Summary remain
C8_Witness ==
    /\ last = [op |-> "admin_reset", status |-> 200]
    /\ ~HasSummary(Db, CE1)
    /\ HasSummary(Db, CE2)
    /\ Len(approved_log) = 1
    /\ approved_log[1].thread_id = CE1

-----------------------------------------------------------------------------
(* Two requests served concurrently.  After some requests served one at a  *)
(* time, two handlers run statement by statement, interleaved.  Each       *)
(* statement that touches the database or a file is one step.  The         *)
(* handlers run in autocommit mode; admin_reset runs its statements in     *)
(* transaction.atomic(): what it deletes is gone for the others at its     *)
(* commit, and until then the others' writes to the table wait.  The       *)
(* output files are not part of the transaction.                           *)

RulesScenario == CHOOSE sc \in LlmScenarios : sc.llm_token = None

LlmScenario == CHOOSE sc \in LlmScenarios : sc.llm_token # None

FirstEdit == [edited_summary |-> Some(EditedText), edited_fields |-> Some(EditedFields)]

SecondEdit == [edited_summary |-> Some(T("Edited again.")), edited_fields |-> None]

Request(op, thread_id, scenario, edit, approve) ==
    [op |-> op, thread_id |-> thread_id, scenario |-> scenario, edit |-> edit,
     approve |-> approve]

SummarizeRace == Request("summarize", Some(CE1), LlmScenario, SecondEdit,
                         [approver |-> None])

SaveEditRace == Request("save_edit", Some(CE1), RulesScenario, SecondEdit,
                        [approver |-> None])

ApproveRace == Request("approve", Some(CE1), RulesScenario, SecondEdit,
                       [approver |-> Some(Approver)])

ResetAllRace == Request("admin_reset", None, RulesScenario, SecondEdit,
                        [approver |-> None])

ResetOneRace == Request("admin_reset", Some(CE1), RulesScenario, SecondEdit,
                        [approver |-> None])

RaceRequests == {SummarizeRace, SaveEditRace, ApproveRace, ResetAllRace, ResetOneRace}

Procs == {1, 2}

EntryPoint(req) == IF req.op = "admin_reset" THEN "begin" ELSE "get_thread"

InitConcurrent ==
    /\ mode = "setup"
    /\ threads = IngestedThreads
    /\ summaries = {}
    /\ nextPk = 1
    /\ approved_log = <<>>
    /\ crm_log = <<>>
    /\ now = 0
    /\ last = NoRequest
    /\ approvals = 0
    /\ procs = <<>>
    /\ txn = NoTxn
    /\ race = None
    /\ cache = NotLoaded
    /\ loads = NoLoads
    /\ call = None
    /\ ret = None

\* two requests arrive together
StartRace(r1, r2) ==
    /\ mode = "setup"
    /\ mode' = "race"
    /\ procs' = [p \in Procs |->
                    [req |-> IF p = 1 THEN r1 ELSE r2,
                     pc |-> EntryPoint(IF p = 1 THEN r1 ELSE r2),
                     obj |-> None, written |-> None, status |-> 0]]
    /\ race' = Some([db |-> Db, now |-> now])
    /\ UNCHANGED <<threads, summaries, nextPk, approved_log, crm_log, now, last,
                   approvals, txn, call, ret, cache, loads>>

Running(p, op, pc) ==
    /\ mode = "race"
    /\ procs[p].req.op = op
    /\ procs[p].pc = pc

Goto(p, pc) == procs' = [procs EXCEPT ![p].pc = pc]

Finish(p, status) == procs' = [procs EXCEPT ![p].pc = "done", ![p].status = status]

raceFrame == <<mode, threads, last, approvals, race, call, ret, cache, loads>>

\* views.py 73-76, 106, 122: get_object_or_404(Thread, thread_id=thread_id)
GetThreadStep(p) ==
    /\ mode = "race"
    /\ procs[p].pc = "get_thread"
    /\ LET req == procs[p].req
       IN  IF ~Truthy(req.thread_id) THEN Finish(p, 400)
           ELSE IF ~ThreadExists(Db, req.thread_id[1]) THEN Finish(p, 404)
           ELSE Goto(p, IF req.op = "summarize" THEN "get" ELSE "get_summary")
    /\ UNCHANGED <<summaries, nextPk, approved_log, crm_log, now, txn, raceFrame>>

\* views.py 107, 123: get_object_or_404(Summary, thread=thread)
LoadSummary(p) ==
    /\ mode = "race"
    /\ procs[p].pc = "get_summary"
    /\ LET t == procs[p].req.thread_id[1]
       IN  IF ~HasSummary(Db, t) THEN Finish(p, 404)
           ELSE procs' = [procs EXCEPT ![p].pc = "save",
                                       ![p].obj = Some(GetSummary(Db, t))]
    /\ UNCHANGED <<summaries, nextPk, approved_log, crm_log, now, txn, raceFrame>>

\* views.py 89, get_or_create: the SELECT
GetOrCreateGet(p) ==
    /\ Running(p, "summarize", "get")
    /\ LET t == procs[p].req.thread_id[1]
       IN  IF HasSummary(Db, t)
           THEN procs' = [procs EXCEPT ![p].pc = "save",
                                       ![p].obj = Some(GetSummary(Db, t))]
           ELSE Goto(p, "create")
    /\ UNCHANGED <<summaries, nextPk, approved_log, crm_log, now, txn, raceFrame>>

\* views.py 89, get_or_create: the INSERT, and the SELECT again when the
\* unique constraint refuses it
GetOrCreateCreate(p) ==
    /\ Running(p, "summarize", "create")
    /\ ~txn.open
    /\ LET new == NewSummary(nextPk, procs[p].req.thread_id[1])
       IN  IF UniqueThread(summaries, new)
           THEN /\ summaries' = summaries \cup {new}
                /\ nextPk' = nextPk + 1
                /\ procs' = [procs EXCEPT ![p].pc = "save", ![p].obj = Some(new),
                                          ![p].written = Some(new)]
           ELSE /\ Goto(p, "get")
                /\ UNCHANGED <<summaries, nextPk>>
    /\ UNCHANGED <<approved_log, crm_log, now, txn, raceFrame>>

\* the row a handler has built when it calls save(): views.py 90-92, 109-111,
\* 125-133 applied to the row it loaded
Computed(p, time) ==
    LET req == procs[p].req
        obj == procs[p].obj[1]
    IN  CASE req.op = "summarize" ->
                SummarizeRow(obj,
                    summarize_thread(Payload(GetThread(Db, req.thread_id[1])),
                                     req.scenario.llm_token, req.scenario.validation,
                                     req.scenario.generation).result)
          [] req.op = "save_edit" -> EditRow(obj, req.edit)
          [] req.op = "approve" -> ApproveRow(obj, req.approve, time)

\* views.py 93, 112, 134: summary.save()
Save(p) ==
    /\ mode = "race"
    /\ procs[p].pc = "save"
    /\ ~txn.open
    /\ \E row \in {Computed(p, now + 1)} :
        \E rows \in {SaveRow(summaries, row)} :
           /\ summaries' = rows
           /\ IF row \notin rows
              THEN Finish(p, 500)      \* IntegrityError
              ELSE IF procs[p].req.op = "approve"
              THEN procs' = [procs EXCEPT ![p].pc = "append", ![p].obj = Some(row),
                                          ![p].written = Some(row)]
              ELSE procs' = [procs EXCEPT ![p].pc = "done", ![p].status = 200,
                                          ![p].obj = Some(row),
                                          ![p].written = Some(row)]
    /\ now' = IF procs[p].req.op = "approve" THEN now + 1 ELSE now
    /\ UNCHANGED <<nextPk, approved_log, crm_log, txn, raceFrame>>

\* views.py 137-148: append_jsonl("approved_summaries.jsonl", export_record)
AppendExport(p) ==
    /\ Running(p, "approve", "append")
    /\ approved_log' =
            append_jsonl(approved_log,
                         ExportRecord(GetThread(Db, procs[p].req.thread_id[1]),
                                      procs[p].obj[1]))
    /\ Finish(p, 200)
    /\ UNCHANGED <<summaries, nextPk, crm_log, now, txn, raceFrame>>

\* views.py 206-209, 213: inside transaction.atomic(), the DELETE
ResetDelete(p) ==
    /\ Running(p, "admin_reset", "begin")
    /\ ~txn.open
    /\ LET req == procs[p].req
       IN  IF Truthy(req.thread_id)
           THEN IF ~ThreadExists(Db, req.thread_id[1])
                THEN Finish(p, 404) /\ UNCHANGED txn
                ELSE /\ txn' = [open |-> TRUE,
                                deleted |-> {r.pk : r \in {x \in summaries :
                                                x.thread = req.thread_id[1]}}]
                     /\ Goto(p, "commit")
           ELSE /\ txn' = [open |-> TRUE, deleted |-> {r.pk : r \in summaries}]
                /\ Goto(p, "truncate")
    /\ UNCHANGED <<summaries, nextPk, approved_log, crm_log, now, raceFrame>>

\* views.py 214: truncate_output_files()
ResetTruncate(p) ==
    /\ Running(p, "admin_reset", "truncate")
    /\ approved_log' = truncate_output_files(Db).approved_log
    /\ crm_log' = truncate_output_files(Db).crm_log
    /\ Goto(p, "commit")
    /\ UNCHANGED <<summaries, nextPk, now, txn, raceFrame>>

\* views.py 206: leaving the with block commits
ResetCommit(p) ==
    /\ Running(p, "admin_reset", "commit")
    /\ summaries' = {r \in summaries : r.pk \notin txn.deleted}
    /\ txn' = NoTxn
    /\ Finish(p, 200)
    /\ UNCHANGED <<nextPk, approved_log, crm_log, now, raceFrame>>

NextConcurrent ==
    \/ Summarize(Some(CE1), RulesScenario)
    \/ SaveEdit(CE1, FirstEdit)
    \/ Approve(CE1, [approver |-> Some(Approver)])
    \/ PostCrmNote(CHOOSE b \in NoteBodies : b.note # None)
    \/ \E r1, r2 \in RaceRequests : StartRace(r1, r2)
    \/ \E p \in Procs : GetThreadStep(p)
    \/ \E p \in Procs : LoadSummary(p)
    \/ \E p \in Procs : GetOrCreateGet(p)
    \/ \E p \in Procs : GetOrCreateCreate(p)
    \/ \E p \in Procs : Save(p)
    \/ \E p \in Procs : AppendExport(p)
    \/ \E p \in Procs : ResetDelete(p)
    \/ \E p \in Procs : ResetTruncate(p)
    \/ \E p \in Procs : ResetCommit(p)

ConcurrentSpec == InitConcurrent /\ [][NextConcurrent]_vars

-----------------------------------------------------------------------------
(* Properties of two requests served concurrently *)

RaceOver == mode = "race" /\ \A p \in Procs : procs[p].pc = "done"

RowOps == {"summarize", "save_edit", "approve"}

\* the database a handler leaves when it runs alone
Alone(db, req, time) ==
    CASE req.op = "summarize" ->
            views_summarize(db, [thread_id |-> req.thread_id,
                                 llm_token |-> req.scenario.llm_token],
                            req.scenario.validation, req.scenario.generation).db
      [] req.op = "save_edit" -> views_save_edit(db, req.thread_id[1], req.edit).db
      [] req.op = "approve" ->
            views_approve(db, req.thread_id[1], req.approve, time).db
      [] req.op = "admin_reset" ->
            views_admin_reset(db, [thread_id |-> req.thread_id]).db

\* one request after the other, from the database and clock at the start
Serial(start, first, second) ==
    Alone(Alone(start.db, first, start.now + 1), second,
          IF first.op = "approve" THEN start.now + 2 ELSE start.now + 1)

\* what remains of a database for its users: the rows (whatever their
\* primary keys) and the two files
Observable(db) ==
    [summaries |-> {[f \in DOMAIN r \ {"pk"} |-> r[f]] : r \in db.summaries},
     approved_log |-> db.approved_log,
     crm_log |-> db.crm_log]

\* C9 as stated: a reset of everything is atomic with respect to a concurrent
\* summarize, save_edit or approve: once both requests are answered, the rows
\* and the files are what one of the two serial orders leaves; no row and no
\* log record survives a reset that removed the rest.
C9_ResetAllAtomic ==
    (/\ RaceOver
     /\ \E p, q \in Procs : /\ procs[p].req = ResetAllRace
                            /\ procs[q].req.op \in RowOps)
    => Observable(Db) \in {Observable(Serial(race[1], procs[1].req, procs[2].req)),
                           Observable(Serial(race[1], procs[2].req, procs[1].req))}

RowsOf(rows, thread_id) == {r \in rows : r.thread = thread_id}

\* C10: for two concurrent summarize, save_edit or approve requests on one
\* thread, every write of the Summary row leaves exactly the row the writing
\* request built from the row it had read (the new default row for the INSERT
\* of get_or_create), never a mixture of the two requests' fields; once both
\* are answered the row is the one written last; and a thread never has more
\* than one Summary row.
C10_RowAtomic ==
    /\ [](\A t \in ThreadIds : Cardinality(RowsOf(summaries, t)) <= 1)
    /\ [][(/\ mode = "race"
           /\ \A p \in Procs : procs[p].req.op \in RowOps
           /\ summaries' # summaries)
          => \E p \in Procs :
                /\ procs'[p] # procs[p]
                /\ procs'[p].written # None
                /\ RowsOf(summaries', CE1) = {procs'[p].written[1]}
                /\ procs'[p].written[1] =
                        IF procs[p].pc = "create" THEN NewSummary(nextPk, CE1)
                        ELSE Computed(p, now')
                /\ \A q \in Procs \ {p} :
                        procs[q].written # None
                        => procs'[p].written[1].pk = procs[q].written[1].pk]_vars

\* both requests were answered 200 and the edit saved by save_edit is gone:
\* summarize wrote last, the row it had read before the edit
C10_Witness ==
    /\ RaceOver
    /\ procs[1].req = SummarizeRace
    /\ procs[2].req = SaveEditRace
    /\ procs[1].status = 200
    /\ procs[2].status = 200
    /\ RowsOf(summaries, CE1) = {procs[1].written[1]}
    /\ procs[2].written[1].edited_summary = SecondEdit.edited_summary[1]
    /\ procs[1].written[1].edited_summary # SecondEdit.edited_summary[1]

-----------------------------------------------------------------------------
(* core/crm_context.py under several threads of one process.  get_order    *)
(* and get_customer are run statement by statement: the test of the        *)
(* global, the read of the file, the assignment of the global, the         *)
(* lookup.  Nothing in the module orders two threads.                      *)

Files == [orders |-> Orders, customers |-> Customers]

OrderIds == {T("ORD-1"), T("ORD-404")}

CustomerIds == {T("C-1"), T("C-9")}

Lookups == ({"orders"} \X OrderIds) \cup ({"customers"} \X CustomerIds)

IdleThread == [pc |-> "idle", coll |-> "orders", key |-> <<>>, data |-> None,
               result |-> None, calls |-> 0]

InitCache ==
    /\ mode = "cache"
    /\ threads = {}
    /\ summaries = {}
    /\ nextPk = 1
    /\ approved_log = <<>>
    /\ crm_log = <<>>
    /\ now = 0
    /\ last = NoRequest
    /\ approvals = 0
    /\ procs = [p \in Procs |-> IdleThread]
    /\ txn = NoTxn
    /\ race = None
    /\ call = None
    /\ ret = None
    /\ cache = NotLoaded
    /\ loads = NoLoads

cacheFrame == <<threads, summaries, nextPk, approved_log, crm_log, now, last,
                approvals, mode, txn, race, call, ret>>

At(p, pc) == mode = "cache" /\ procs[p].pc = pc

\* a thread calls get_order(key) or get_customer(key)
CallLookup(p, coll, key) ==
    /\ At(p, "idle")
    /\ procs[p].calls < MaxCalls
    /\ procs' = [procs EXCEPT ![p] = [pc |-> "test", coll |-> coll, key |-> key,
                                      data |-> None, result |-> None,
                                      calls |-> @.calls + 1]]
    /\ UNCHANGED <<cache, loads, cacheFrame>>

\* lines 15, 21: if _orders is None
TestLoaded(p) ==
    /\ At(p, "test")
    /\ procs' = [procs EXCEPT ![p].pc =
                    IF cache[procs[p].coll] = None THEN "load" ELSE "lookup"]
    /\ UNCHANGED <<cache, loads, cacheFrame>>

\* lines 16, 22, right-hand side: _load_json(name) and the dict built from it
LoadJson(p) ==
    /\ At(p, "load")
    /\ procs' = [procs EXCEPT ![p].pc = "assign",
                              ![p].data = Some(Files[procs[p].coll])]
    /\ loads' = [loads EXCEPT ![procs[p].coll] = @ + 1]
    /\ UNCHANGED <<cache, cacheFrame>>

\* lines 16, 22: the assignment of the global
AssignGlobal(p) ==
    /\ At(p, "assign")
    /\ cache' = [cache EXCEPT ![procs[p].coll] = procs[p].data]
    /\ procs' = [procs EXCEPT ![p].pc = "lookup"]
    /\ UNCHANGED <<loads, cacheFrame>>

\* lines 17, 23: return _orders.get(order_id)
ReturnLookup(p) ==
    /\ At(p, "lookup")
    /\ LET loaded == cache[procs[p].coll][1]
           key == procs[p].key
       IN  procs' = [procs EXCEPT
                ![p].pc = "idle",
                ![p].result = IF key \in DOMAIN loaded THEN Some(loaded[key])
                              ELSE None]
    /\ UNCHANGED <<cache, loads, cacheFrame>>

NextCache ==
    \/ \E p \in Procs : \E l \in Lookups : CallLookup(p, l[1], l[2])
    \/ \E p \in Procs : TestLoaded(p)
    \/ \E p \in Procs : LoadJson(p)
    \/ \E p \in Procs : AssignGlobal(p)
    \/ \E p \in Procs : ReturnLookup(p)

CacheSpec == InitCache /\ [][NextCache]_vars

\* C11 as stated: each collection is read from its file at most once in the
\* life of the process, also when several threads make the first lookups
\* together, and a loaded global is never assigned again.
C11_LoadedOnce ==
    /\ [](\A c \in DOMAIN loads : loads[c] <= 1)
    /\ [][\A c \in DOMAIN cache : cache[c] # None => cache'[c] = cache[c]]_vars

-----------------------------------------------------------------------------
(* The rule-based functions alone: one call of one function of             *)
(* RuleBasedSummarizer on drawn arguments.                                 *)

RECURSIVE Pick(_, _, _)
\* the elements of seq at the positions in keep, in their order, from i on
Pick(seq, keep, i) ==
    IF i > Len(seq) THEN <<>>
    ELSE (IF i \in keep THEN <<seq[i]>> ELSE <<>>) \o Pick(seq, keep, i + 1)

\* the lists detect_customer_asks can return
AskLists ==
    {Pick([i \in DOMAIN REQUEST_TYPES |-> T(REQUEST_TYPES[i])], keep, 1) :
        keep \in SUBSET DOMAIN REQUEST_TYPES}

IssueTypeValues == {ISSUE_TYPES[k] : k \in DOMAIN ISSUE_TYPES}

BuildCalls ==
    [fn : {"build_next_actions"}, issue_type : IssueTypeValues,
     customer_asks : AskLists]

\* every list build_next_actions returns, with each stock_available
RefineCalls ==
    [fn : {"refine_next_actions"},
     next_actions : {build_next_actions(c.issue_type, c.customer_asks) :
                        c \in BuildCalls},
     stock_available : {None, Some(TRUE), Some(FALSE)}]

\* the longest text, in words, given to classify_issue_type
MaxWords == 2

\* keywords of the five classified groups in mixed case, a word without any
\* keyword, and words that hold a keyword inside ("plate", "format")
Words ==
    {<<"B","R","O","K","E","N">>, <<"d","a","m","a","g","e","d">>,
     <<"L","A","T","E">>, <<"D","e","l","a","y">>,
     <<"w","r","o","n","g">>, <<"S","i","z","e">>,
     <<"r","e","t","u","r","n">>, <<"R","M","A">>,
     <<"r","e","f","u","n","d">>, <<"C","r","e","d","i","t">>,
     <<"h","e","l","l","o">>, <<"p","l","a","t","e">>,
     <<"f","o","r","m","a","t">>}

Texts ==
    {Join(ws, <<" ">>) : ws \in UNION {[1..n -> Words] : n \in 0..MaxWords}}

ClassifyCalls == [fn : {"classify_issue_type"}, text : Texts]

DispositionCalls == [fn : {"determine_disposition"}, customer_asks : AskLists]

\* "return or replace, it is broken"
BodyReturnReplace == <<"r","e","t","u","r","n"," ","o","r"," ","r","e","p","l","a","c","e",","," ","i","t"," ","i","s"," ","b","r","o","k","e","n">>

\* "refund, replace or return"
BodyAnyRemedy == <<"r","e","f","u","n","d",","," ","r","e","p","l","a","c","e"," ","o","r"," ","r","e","t","u","r","n">>

RuleBodies ==
    {<<>>, BodyDamaged, BodyReplacement, BodyRefundLate, BodyWrongSize,
     BodyReturnReplace, BodyAnyRemedy}

\* every body with no order, each known order and an unknown order
RuleThreads ==
    {Payload(ThreadRow(T("CE-7"), order_id, T("Mug"), body)) :
        order_id \in {<<>>, T("ORD-404")} \cup DOMAIN Orders,
        body \in RuleBodies}

SummarizeCalls == [fn : {"summarize"}, thread : RuleThreads]

InitRules ==
    /\ mode = "rules"
    /\ DbIdle
    /\ call \in BuildCalls \cup RefineCalls \cup ClassifyCalls
                \cup DispositionCalls \cup SummarizeCalls
    /\ ret = None

Calling(fn) == mode = "rules" /\ ret = None /\ call.fn = fn

BuildNextActions ==
    /\ Calling("build_next_actions")
    /\ ret' = Some(build_next_actions(call.issue_type, call.customer_asks))
    /\ UNCHANGED <<mode, call, dbVars>>

RefineNextActions ==
    /\ Calling("refine_next_actions")
    /\ ret' = Some(refine_next_actions(call.next_actions, call.stock_available))
    /\ UNCHANGED <<mode, call, dbVars>>

ClassifyIssueType ==
    /\ Calling("classify_issue_type")
    /\ ret' = Some(classify_issue_type(call.text))
    /\ UNCHANGED <<mode, call, dbVars>>

DetermineDisposition ==
    /\ Calling("determine_disposition")
    /\ ret' = Some(determine_disposition(call.customer_asks))
    /\ UNCHANGED <<mode, call, dbVars>>

SummarizeByRules ==
    /\ Calling("summarize")
    /\ ret' = Some(RuleBasedSummarizer_summarize(call.thread))
    /\ UNCHANGED <<mode, call, dbVars>>

NextRules ==
    \/ SummarizeByRules
    \/ DetermineDisposition
    \/ ClassifyIssueType
    \/ BuildNextActions
    \/ RefineNextActions

RulesSpec == InitRules /\ [][NextRules]_vars

\* the six trigger rules in their order: the ask, the issue types that
\* override it, the action
TRIGGERS ==
    <<[ask |-> T("photos"), issues |-> {ISSUE_TYPES.damaged},
       action |-> ACTION_PHOTOS],
      [ask |-> T("return"), issues |-> {ISSUE_TYPES.damaged, ISSUE_TYPES.wrong_variant},
       action |-> ACTION_RMA],
      [ask |-> T("refund"), issues |-> {ISSUE_TYPES.damaged},
       action |-> ACTION_REFUND],
      [ask |-> T("replacement"), issues |-> {}, action |-> ACTION_REPLACE],
      [ask |-> T("address"), issues |-> {}, action |-> ACTION_ADDRESS],
      [ask |-> T("tracking"), issues |-> {}, action |-> ACTION_TRACKING]>>

Fires(i, issue_type, customer_asks) ==
    IsIn(TRIGGERS[i].ask, customer_asks) \/ issue_type \in TRIGGERS[i].issues

Positions(list, x) == {k \in DOMAIN list : list[k] = x}

SnapshotOf(answer) == answer.result.draft_fields.crm_snapshot

AbsentSnapshot ==
    [policy |-> None, order_status |-> None, stock_available |-> None,
     customer |-> None]

OrderMissing(order_id) == order_id = <<>> \/ order_id \notin DOMAIN Orders

\* the order exists and names a customer the reference data does not hold
CustomerMissing(order_id) ==
    /\ ~OrderMissing(order_id)
    /\ Truthy(Orders[order_id].customer_id)
    /\ Orders[order_id].customer_id[1] \notin DOMAIN Customers

\* C16 as stated: crm_snapshot has policy, stock_available, order_status and
\* customer all absent when order_id is empty, the order is not found, or the
\* order's referenced customer is not found, in either branch.
C16_AllAbsentOnMiss ==
    (ret # None) =>
        LET order_id == call.thread.order_id
        IN  (OrderMissing(order_id) \/ CustomerMissing(order_id)) =>
                SnapshotOf(ret[1]) = AbsentSnapshot

\* C16 amended: crm_snapshot is all absent when order_id is empty or the
\* order is not found; for a found order it holds the order's policy,
\* stock_available and status, and the customer snapshot is absent exactly
\* when the order names no customer or names one that is not found; this
\* holds in the rule-based and in the LLM branch alike.
C16_Enrichment ==
    (ret # None) =>
        LET order_id == call.thread.order_id
            snapshot == SnapshotOf(ret[1])
        IN  /\ ret[1].branch \in {"rules", "llm"}
            /\ OrderMissing(order_id) => snapshot = AbsentSnapshot
            /\ ~OrderMissing(order_id) =>
                /\ snapshot.policy = Orders[order_id].policy
                /\ snapshot.stock_available = Orders[order_id].stock_available
                /\ snapshot.order_status = Orders[order_id].status
                /\ (snapshot.customer = None) <=>
                        \/ ~Truthy(Orders[order_id].customer_id)
                        \/ CustomerMissing(order_id)
                /\ snapshot.customer # None =>
                        snapshot.customer[1] =
                            Customers[Orders[order_id].customer_id[1]]

\* the LLM branch answers for an order whose customer is unknown
C16_Witness ==
    /\ ret # None
    /\ ret[1].branch = "llm"
    /\ CustomerMissing(call.thread.order_id)
    /\ SnapshotOf(ret[1]).customer = None
    /\ SnapshotOf(ret[1]).stock_available = Some(FALSE)

\* C14: next_actions holds the action of each of the six rules (photos,
\* return, refund, replacement, address, tracking) exactly when the rule
\* fires (its ask was detected, or the issue type is damaged for photos,
\* return and refund, or wrong variant for return), at most once and in that
\* order; the default action is present exactly when no rule fired, and is
\* then the only element.
C14_NextActions ==
    (ret # None /\ call.fn = "build_next_actions") =>
        LET actions == ret[1]
            fired == {i \in DOMAIN TRIGGERS :
                        Fires(i, call.issue_type, call.customer_asks)}
        IN  /\ \A i \in DOMAIN TRIGGERS :
                Cardinality(Positions(actions, TRIGGERS[i].action))
                    = IF i \in fired THEN 1 ELSE 0
            /\ \A i, j \in fired : i < j =>
                \A a \in Positions(actions, TRIGGERS[i].action) :
                    \A b \in Positions(actions, TRIGGERS[j].action) : a < b
            /\ (Positions(actions, ACTION_DEFAULT) # {}) <=> (fired = {})
            /\ fired = {} => actions = <<ACTION_DEFAULT>>
            /\ Len(actions) = IF fired = {} THEN 1 ELSE Cardinality(fired)

\* a damaged item with no ask detected: photos, return and refund fire on
\* the issue type alone
C14_Witness ==
    /\ ret # None
    /\ call.fn = "build_next_actions"
    /\ call.issue_type = ISSUE_TYPES.damaged
    /\ call.customer_asks = <<>>
    /\ ret[1] = <<ACTION_PHOTOS, ACTION_RMA, ACTION_REFUND>>

\* C15: with a known stock_available, every element of next_actions equal to
\* "Offer replacement if stock available" becomes, at its position, the
\* stock-available variant (true) or the backorder variant (false), so the
\* generic phrasing is gone; every other element keeps its value and
\* position and the length is unchanged; with stock_available absent the
\* list is unchanged.
C15_StockRewrite ==
    (ret # None /\ call.fn = "refine_next_actions") =>
        LET before == call.next_actions
            after == ret[1]
            stock == call.stock_available
        IN  /\ Len(after) = Len(before)
            /\ stock = None => after = before
            /\ stock # None =>
                /\ \A i \in DOMAIN before :
                    after[i] = IF before[i] # ACTION_REPLACE THEN before[i]
                               ELSE IF stock[1] THEN ACTION_REPLACE_STOCK
                               ELSE ACTION_REPLACE_BACKORDER
                /\ Positions(after, ACTION_REPLACE) = {}

\* scenario B: out of stock, the replacement offer between other actions
C15_Witness ==
    /\ ret # None
    /\ call.fn = "refine_next_actions"
    /\ call.stock_available = Some(FALSE)
    /\ call.next_actions = <<ACTION_RMA, ACTION_REPLACE, ACTION_TRACKING>>
    /\ ret[1] = <<ACTION_RMA, ACTION_REPLACE_BACKORDER, ACTION_TRACKING>>

\* the keyword groups classify_issue_type tests, highest priority first
PRIORITY == <<"damaged", "delay", "wrong_variant", "return", "refund">>

\* the character of the text is the keyword's character in either case
SameLetter(c, k) == c = k \/ (c \in DOMAIN LowerTable /\ LowerTable[c] = k)

Occurs(keyword, text) ==
    \E at \in 0..(Len(text) - Len(keyword)) :
        \A j \in DOMAIN keyword : SameLetter(text[at + j], keyword[j])

GroupMatches(group, text) ==
    \E i \in DOMAIN INTENT_KEYWORDS[group] :
        Occurs(INTENT_KEYWORDS[group][i], text)

\* C17: classify_issue_type returns the issue type of the first group, in
\* the order damaged > delay > wrong_variant > return > refund, one of whose
\* keywords occurs in the text as a case-insensitive substring, and
\* "General inquiry" when no group has one.
C17_Priority ==
    (ret # None /\ call.fn = "classify_issue_type") =>
        LET hits == {i \in DOMAIN PRIORITY : GroupMatches(PRIORITY[i], call.text)}
        IN  IF hits = {}
            THEN ret[1] = ISSUE_TYPES.default
            ELSE \E first \in hits :
                    /\ \A i \in hits : first <= i
                    /\ ret[1] = ISSUE_TYPES[PRIORITY[first]]

\* "refund BROKEN": the refund keyword comes first in the text, the damaged
\* group wins
C17_Witness ==
    /\ ret # None
    /\ call.fn = "classify_issue_type"
    /\ call.text = <<"r","e","f","u","n","d"," ","B","R","O","K","E","N">>
    /\ ret[1] = T("Damaged item on arrival")

\* the asks that decide the disposition, highest precedence first
PRECEDENCE ==
    <<[ask |-> T("refund"), disposition |-> T("Refund")],
      [ask |-> T("replacement"), disposition |-> T("Replacement")],
      [ask |-> T("return"), disposition |-> T("RMA + Refund")]>>

DispositionFor(customer_asks) ==
    LET asked == {i \in DOMAIN PRECEDENCE : IsIn(PRECEDENCE[i].ask, customer_asks)}
    IN  IF asked = {} THEN T("Agent to confirm with customer")
        ELSE PRECEDENCE[CHOOSE i \in asked : \A j \in asked : i <= j].disposition

\* C18: the disposition is "Refund" if refund was asked, otherwise
\* "Replacement" if replacement was asked, otherwise "RMA + Refund" if return
\* was asked, otherwise "Agent to confirm with customer"; in the rule-based
\* result recommended_disposition is this function of customer_ask alone,
\* whatever the issue type and the order's reference data.
C18_Disposition ==
    /\ (ret # None /\ call.fn = "determine_disposition") =>
            ret[1] = DispositionFor(call.customer_asks)
    /\ (ret # None /\ call.fn = "summarize") =>
            ret[1].draft_fields.recommended_disposition =
                DispositionFor(ret[1].draft_fields.customer_ask)

\* a damaged item with replacement and return asked, on an order out of stock
C18_Witness ==
    /\ ret # None
    /\ call.fn = "summarize"
    /\ call.thread.order_id = T("ORD-2")
    /\ ret[1].draft_fields.issue_type = ISSUE_TYPES.damaged
    /\ ret[1].draft_fields.customer_ask = <<T("replacement"), T("return")>>
    /\ ret[1].draft_fields.recommended_disposition = T("Replacement")

-----------------------------------------------------------------------------
(* The approved copy, under Spec *)

\* C20: every Summary in state APPROVED has approved_summary equal to its
\* edited_summary if that is non-empty and to its draft_summary otherwise,
\* approved_fields equal to its edited_fields if non-empty and to its
\* draft_fields otherwise, and approved_at set.
C20_ApprovedCopy ==
    \A r \in summaries :
        r.state = "APPROVED" =>
            /\ r.approved_summary =
                    IF r.edited_summary # <<>> THEN r.edited_summary
                    ELSE r.draft_summary
            /\ r.approved_fields =
                    IF r.edited_fields # EmptyDict THEN r.edited_fields
                    ELSE r.draft_fields
            /\ r.approved_at # None

\* approved after an edit of the text alone: the text comes from the edit,
\* the fields from the draft
C20_Witness ==
    \E r \in summaries :
        /\ r.state = "APPROVED"
        /\ r.edited_summary = EditedText
        /\ r.edited_fields = EmptyDict
        /\ r.approved_summary = EditedText
        /\ r.approved_summary # r.draft_summary
        /\ r.approved_fields = r.draft_fields
        /\ r.draft_fields # EmptyDict
        /\ r.approved_at # None

-----------------------------------------------------------------------------
(* The handling of the LLM's response, under SummarizerSpec *)

\* the generation request was sent and answered 200 with non-empty content
ContentHandled(c, answer) ==
    /\ IsIn("generate", answer.sent)
    /\ Accepted(c.generation)
    /\ Truthy(c.generation.content)

\* C19 as stated: a parse of the un-repaired content comes first, and the
\* repair pass runs only after a parse and is followed by exactly one more
\* parse.
C19_ParseBeforeRepair ==
    (ret # None /\ ContentHandled(call, ret[1])) =>
        LET steps == ret[1].steps
        IN  /\ Len(steps) >= 2 /\ steps[1] = "clean" /\ steps[2] = "parse"
            /\ \A i \in DOMAIN steps : steps[i] = "repair" =>
                    /\ \E j \in 1..(i - 1) : steps[j] = "parse"
                    /\ Count(SubSeq(steps, i + 1, Len(steps)), "parse") = 1

\* C19 amended: a non-200 status, a transport error or empty content yields
\* absent with no step taken on the content; otherwise the content is
\* un-fenced, then the repair pass is applied, then exactly one parse is
\* attempted, on the repaired content, whether or not the content would
\* have parsed without repair; the result is absent when that parse fails.
C19_RepairThenParse ==
    (ret # None /\ IsIn("generate", ret[1].sent)) =>
        IF ContentHandled(call, ret[1])
        THEN /\ ret[1].steps = <<"clean", "repair", "parse">>
             /\ ~json_loads(repair_json_newlines(clean_json_response(
                    call.generation.content[1]))).ok
                    => ret[1].branch = "rules"
        ELSE /\ ret[1].steps = <<>>
             /\ ret[1].branch = "rules"

\* fenced content that parses as it is goes through the repair pass first
C19_Witness ==
    /\ ret # None
    /\ call.generation = Content(FencedJson)
    /\ json_loads(clean_json_response(FencedJson)).ok
    /\ ret[1].steps = <<"clean", "repair", "parse">>
    /\ ret[1].branch = "llm"

-----------------------------------------------------------------------------
(* The approved-summaries log, under Spec *)

\* the positions of the log's records for one thread
RecordsFor(log, thread_id) == {i \in DOMAIN log : log[i].thread_id = thread_id}

\* the record carries the approved copy and the approver of the row
Carries(record, row) ==
    /\ record.thread_id = row.thread
    /\ record.approved_summary = row.approved_summary
    /\ record.approved_fields = row.approved_fields
    /\ record.approver = row.approver

\* C21: every Summary in state APPROVED has a record in the
\* approved-summaries log for its thread, and the latest such record carries
\* the Summary's approved_summary, approved_fields and approver; and whenever
\* a record is appended, the approval it describes is in the table: the
\* record's thread has an APPROVED Summary with those values and that
\* approved_at.
C21_LogMatchesApproved ==
    /\ [](\A r \in summaries :
            r.state = "APPROVED" =>
                LET mine == RecordsFor(approved_log, r.thread)
                IN  /\ mine # {}
                    /\ \E latest \in mine :
                        /\ \A i \in mine : i <= latest
                        /\ Carries(approved_log[latest], r))
    /\ [][Len(approved_log') > Len(approved_log) =>
            /\ approved_log' = Append(approved_log, approved_log'[Len(approved_log')])
            /\ \E r \in summaries' :
                /\ r.state = "APPROVED"
                /\ Carries(approved_log'[Len(approved_log')], r)
                /\ r.approved_at # None
                /\ approved_log'[Len(approved_log')].approved_at =
                        IsoFormat(r.approved_at[1])]_vars

\* approved, edited and approved again: two records for the thread, the
\* first with the text approved earlier, the second with the current one
C21_Witness ==
    \E r \in summaries :
        /\ r.state = "APPROVED"
        /\ Len(approved_log) = 2
        /\ RecordsFor(approved_log, r.thread) = {1, 2}
        /\ approved_log[1].approved_summary # r.approved_summary
        /\ Carries(approved_log[2], r)

\* C22: approve chooses the approved text and the approved fields each on
\* its own: with a non-empty edited_summary and empty edited_fields it takes
\* the text from the edit and the fields from the draft, and with an empty
\* edited_summary and non-empty edited_fields the text from the draft and
\* the fields from the edit.
C22_IndependentSources ==
    [][\A r \in ApproveRequests :
        (Served("approve", 200) /\ Approve(r[1], r[2])) =>
            LET old == RowOf(summaries, r[1])
                new == RowOf(summaries', r[1])
            IN  /\ (old.edited_summary # <<>> /\ old.edited_fields = EmptyDict) =>
                    /\ new.approved_summary = old.edited_summary
                    /\ new.approved_fields = old.draft_fields
                /\ (old.edited_summary = <<>> /\ old.edited_fields # EmptyDict) =>
                    /\ new.approved_summary = old.draft_summary
                    /\ new.approved_fields = old.edited_fields]_vars

\* approved after an edit of the fields alone: the approved fields are the
\* edit's and differ from the draft's, the approved text is the draft's
C22_Witness ==
    /\ last = [op |-> "approve", status |-> 200]
    /\ \E r \in summaries :
        /\ r.state = "APPROVED"
        /\ r.approved_fields = EditedFields
        /\ r.approved_fields # r.draft_fields
        /\ r.approved_summary = r.draft_summary
        /\ r.approved_summary # EditedText
        /\ r.edited_summary = <<>>

=============================================================================
